---- MODULE Spec2Model ----
(***************************************************************************)
(* A model of tools/intel_gpu_top.c: option parsing, engine discovery,     *)
(* the PMU counter groups, the sampler, the rate calculator, the four      *)
(* renderers and the control loop of main().                               *)
(*                                                                         *)
(* Conventions.  A C pointer is a sequence of length 0 (NULL) or 1.        *)
(* A uint64_t lives in 0 .. U64-1 and its arithmetic is taken modulo U64.  *)
(* A double is an exact fraction [n, d]; d = 0 stands for the IEEE values  *)
(* a division by zero yields (n > 0: +inf, n = 0: NaN).                    *)
(***************************************************************************)
EXTENDS Integers, Sequences, FiniteSets, TLC

VARIABLES
    argv,       \* the command line: a sequence of option records
    env,        \* what the program finds around it (terminal, sysfs, kernel)
    pc,         \* the position of main()
    ret,        \* main's ret / the exit status once pc = "done"
    output_mode, output_path, period_us, list_device,
    stop_top, class_view,
    stdin_attr, \* the attributes of file descriptor 0
    engines,    \* struct engines *engines (pointer)
    classes,    \* the static struct engines *classes of update_class_engines
    fds,        \* the descriptors the process holds open
    kernel,     \* the kernel's clock and the work the GPU has done
    json_indent_level, json_struct_members, json_prev_struct_members,
    stdout_level, stdout_lines,
    loop,       \* the locals of the main loop: con_w, con_h, t
    out,        \* what the current tick has written, as tokens
    rows,       \* the kinds of the lines completed in plain-text mode
    log,        \* history: the sleeps, samples and renders main has issued
    ticks,      \* history: main-loop iterations begun
    driven,     \* history: the add_member calls of the current tick
    reads,      \* history: the group reads of the last pmu_sample
    built,      \* history: the calls of init_class_engines so far
    arg, res    \* input and result of a function checked on its own

vars == <<argv, env, pc, ret, output_mode, output_path, period_us, list_device,
          stop_top, class_view, stdin_attr, engines, classes, fds, kernel,
          json_indent_level, json_struct_members, json_prev_struct_members,
          stdout_level, stdout_lines, loop, out, rows, log, ticks, driven,
          reads, built, arg, res>>

(***************************************************************************)
(* Bounds of the model.                                                    *)
(***************************************************************************)
\* command lines of up to MaxArgs options are parsed
MaxArgs == 3
\* characters waiting on stdin when process_stdin polls: up to MaxKeys
MaxKeys == 2
\* engine tables of up to MaxEngines engines are aggregated
MaxEngines == 2
\* the number of entries of a directory or a table sorted on its own
MaxEntries == 3
\* main-loop iterations explored when every counter opened
MaxTicks == 22
\* main-loop iterations explored when some open was refused
ShortTicks == 2
\* a uint64_t is modelled with W bits
W == 4
\* one second (1e9 ns) is NSEC model time units
NSEC == 4

U64 == 2 ^ W

NULL == <<>>
Ptr(x) == <<x>>
Deref(p) == p[1]

\* the one element of a singleton: Only({e(r) : r \in {x}}) is e of the
\* value of x, x computed once
Only(S) == CHOOSE x \in S : TRUE

Min(a, b) == IF a < b THEN a ELSE b
Max(a, b) == IF a > b THEN a ELSE b

(***************************************************************************)
(* Program constants.                                                      *)
(***************************************************************************)
DEFAULT_PERIOD_MS == 1000
STDOUT_HEADER_REPEAT == 20
EXIT_SUCCESS == 0
EXIT_FAILURE == 1

(***************************************************************************)
(* main(): option parsing (getopt "o:s:d:JLlph").                          *)
(***************************************************************************)
\* one option as getopt returns it; path is optarg of -o, ms that of -s
Opt(o) == [opt |-> o, path |-> "", ms |-> 0]
OptO(p) == [opt |-> "o", path |-> p, ms |-> 0]
OptS(m) == [opt |-> "s", path |-> "", ms |-> m]

\* "?" is what getopt returns for an option outside the option string
Options == {Opt("J"), Opt("L"), Opt("l"), Opt("p"), Opt("h"), Opt("?"),
            Opt("d"), OptO("-"), OptO("file"), OptS(100)}

ModeFlags == {"J", "l", "p"}

\* the locals and globals the option loop writes, before the first option
ParseStart ==
    [output_mode |-> "INTERACTIVE", output_path |-> NULL,
     period_us |-> DEFAULT_PERIOD_MS * 1000, list_device |-> FALSE,
     opt_device |-> FALSE, exited |-> FALSE, code |-> 0]

\* the body of the switch for one option
ParseOne(p, o) ==
    CASE o.opt = "o" -> [p EXCEPT !.output_path = Ptr(o.path)]
      [] o.opt = "s" -> [p EXCEPT !.period_us = o.ms * 1000]
      [] o.opt = "d" -> [p EXCEPT !.opt_device = TRUE]
      [] o.opt = "J" -> [p EXCEPT !.output_mode = "JSON"]
      [] o.opt = "L" -> [p EXCEPT !.list_device = TRUE]
      [] o.opt = "l" -> [p EXCEPT !.output_mode = "STDOUT"]
      [] o.opt = "p" -> [p EXCEPT !.output_mode = "PROMETHEUS"]
      [] o.opt = "h" -> [p EXCEPT !.exited = TRUE, !.code = 0]
      [] OTHER       -> [p EXCEPT !.exited = TRUE, !.code = 1]

RECURSIVE ParseFrom(_, _, _)
\* the while ((ch = getopt(...)) != -1) loop, from option i on
ParseFrom(p, args, i) ==
    IF i > Len(args) \/ p.exited THEN p
    ELSE ParseFrom(ParseOne(p, args[i]), args, i + 1)

ParseOptions(args) == ParseFrom(ParseStart, args, 1)

\* a downgrade that looks at the TTY alone and not at -o
DowngradeTtyOnly(mode, path, isatty) ==
    IF mode = "INTERACTIVE" /\ ~isatty THEN "STDOUT" ELSE mode

\* if (output_mode == INTERACTIVE && (output_path || isatty(1) != 1))
Downgrade(mode, path, isatty) ==
    IF mode = "INTERACTIVE" /\ (path # NULL \/ ~isatty) THEN "STDOUT" ELSE mode

(***************************************************************************)
(* interactive_stdin(): O_NONBLOCK on descriptor 0, canonical mode off.    *)
(***************************************************************************)
\* fcntl(0, F_SETFL, flags | O_NONBLOCK)
SetNonblock(a) == [a EXCEPT !.nonblock = TRUE]
\* c_lflag &= ~ICANON; c_cc[VMIN] = 1; c_cc[VTIME] = 0; tcsetattr()
SetRaw(a) == [a EXCEPT !.icanon = FALSE, !.vmin = 1, !.vtime = 0]

\* the settings a terminal may be in when the program starts
TermAttrs == [icanon : {TRUE}, vmin : {1, 4}, vtime : {0, 2}, nonblock : {FALSE}]

(***************************************************************************)
(* Counters and engines.                                                   *)
(***************************************************************************)
\* a struct pmu_counter after memset(0)
NewCounter ==
    [idx |-> 0, val |-> [cur |-> 0, prev |-> 0], scale |-> 0, present |-> FALSE]

\* PMU config bit layout of an engine event
I915_PMU_SAMPLE_BITS == 8
I915_PMU_SAMPLE_INSTANCE_BITS == 8
I915_PMU_CLASS_SHIFT == 16
\* __I915_PMU_OTHER(0)
I915_PMU_OTHER_BASE == 65536

\* x >> n and x & (2^n - 1) on non-negative integers
Shr(x, n) == x \div (2 ^ n)
LowBits(x, n) == x % (2 ^ n)

\* __I915_PMU_ENGINE(class, instance, sample)
PmuEngineConfig(class, instance, sample) ==
    class * (2 ^ I915_PMU_CLASS_SHIFT) + instance * (2 ^ I915_PMU_SAMPLE_BITS)
    + sample

\* (config & (__I915_PMU_OTHER(0) - 1)) >> I915_PMU_CLASS_SHIFT
ConfigClass(config) == Shr(config % I915_PMU_OTHER_BASE, I915_PMU_CLASS_SHIFT)
\* an instance taken without the mask
ConfigInstance_unmasked(config) == Shr(config, I915_PMU_SAMPLE_BITS)

\* (config >> I915_PMU_SAMPLE_BITS) & ((1 << I915_PMU_SAMPLE_INSTANCE_BITS) - 1)
ConfigInstance(config) ==
    LowBits(Shr(config, I915_PMU_SAMPLE_BITS), I915_PMU_SAMPLE_INSTANCE_BITS)

I915_ENGINE_CLASS_RENDER == 0
I915_ENGINE_CLASS_COPY == 1
I915_ENGINE_CLASS_VIDEO == 2
I915_ENGINE_CLASS_VIDEO_ENHANCE == 3

class_display_name(class) ==
    CASE class = I915_ENGINE_CLASS_RENDER -> "Render/3D"
      [] class = I915_ENGINE_CLASS_COPY -> "Blitter"
      [] class = I915_ENGINE_CLASS_VIDEO -> "Video"
      [] class = I915_ENGINE_CLASS_VIDEO_ENHANCE -> "VideoEnhance"
      [] OTHER -> "[unknown]"

class_short_name(class) ==
    CASE class = I915_ENGINE_CLASS_RENDER -> "RCS"
      [] class = I915_ENGINE_CLASS_COPY -> "BCS"
      [] class = I915_ENGINE_CLASS_VIDEO -> "VCS"
      [] class = I915_ENGINE_CLASS_VIDEO_ENHANCE -> "VECS"
      [] OTHER -> "UNKN"

\* the struct engine discovery fills in for one "<stem>-busy" entry
NewEngine(config) ==
    [config |-> config,
     class |-> ConfigClass(config),
     instance |-> ConfigInstance(config),
     num_counters |-> 0,
     busy |-> NewCounter, wait |-> NewCounter, sema |-> NewCounter]

\* a comparison that looks at the class alone
engine_cmp_class_only(a, b) == a.class - b.class

\* engine_cmp(a, b) < 0 or = 0: a may stand before b
engine_cmp(a, b) ==
    IF a.class # b.class THEN a.class - b.class ELSE a.instance - b.instance

RECURSIVE InsertSorted(_, _)
\* e put into the sorted table s, after the entries that compare equal
InsertSorted(s, e) ==
    IF s = <<>> THEN <<e>>
    ELSE IF engine_cmp(e, Head(s)) < 0 THEN <<e>> \o s
    ELSE <<Head(s)>> \o InsertSorted(Tail(s), e)

RECURSIVE SortEngines(_)
\* qsort(engine_ptr(engines, 0), num_engines, sizeof(struct engine), engine_cmp)
SortEngines(s) ==
    IF s = <<>> THEN <<>>
    ELSE InsertSorted(SortEngines(SubSeq(s, 1, Len(s) - 1)), s[Len(s)])

(***************************************************************************)
(* discover_engines().  The events directory is a sequence of entries in   *)
(* readdir order: kind "busy" is a regular file "<stem>-busy" whose config *)
(* reads back as .config, "nocfg" one whose config cannot be read, "long"  *)
(* a name of 256 characters or more, "other" any entry that is skipped    *)
(* (not a regular file, too short, another suffix).                        *)
(***************************************************************************)
DirEnt(kind, config) == [kind |-> kind, config |-> config]

RECURSIVE ScanDir(_, _, _)
\* the readdir loop from entry i on; err # 0 is the ret the loop left with
ScanDir(entries, i, acc) ==
    IF i > Len(entries) THEN [err |-> 0, engine |-> acc]
    ELSE LET d == entries[i]
         IN  CASE d.kind = "other" -> ScanDir(entries, i + 1, acc)
               [] d.kind = "long"  -> [err |-> 1, engine |-> acc]
               [] d.kind = "nocfg" -> [err |-> 1, engine |-> acc]
               [] OTHER ->
                    ScanDir(entries, i + 1, Append(acc, NewEngine(d.config)))

\* the struct engines discovery returns, or NULL
discover_engines(sysfs, discrete, dirfd) ==
    IF ~sysfs.exists THEN NULL
    ELSE LET r == ScanDir(sysfs.entries, 1, <<>>)
         IN  IF r.err # 0 THEN NULL
             ELSE Ptr([num_engines |-> Len(r.engine),
                       engine |-> SortEngines(r.engine),
                       num_counters |-> 0, root |-> dirfd, fd |-> 0,
                       ts |-> [cur |-> 0, prev |-> 0],
                       rapl_fd |-> 0, r_gpu |-> NewCounter, r_pkg |-> NewCounter,
                       num_rapl |-> 0,
                       imc_fd |-> 0, imc_reads |-> NewCounter,
                       imc_writes |-> NewCounter, num_imc |-> 0,
                       freq_req |-> NewCounter, freq_act |-> NewCounter,
                       irq |-> NewCounter, rc6 |-> NewCounter,
                       discrete |-> discrete])

(***************************************************************************)
(* Descriptors.  A perf descriptor remembers its group leader and the      *)
(* counter it was opened for; the kernel lays a group read out in the      *)
(* order the members were opened.                                          *)
(***************************************************************************)
\* the lowest descriptor number that is free
NewFd(fdset) ==
    CHOOSE n \in 3..(3 + Cardinality(fdset)) :
        /\ \A f \in fdset : f.fd # n
        /\ \A m \in 3..(n - 1) : \E f \in fdset : f.fd = m

\* a counter is named by its kind and, for an engine's, the engine's place
\* in the sorted table (0 for the others)
Ctr(kind, i) == <<kind, i>>
GetCtr(eng, c) == IF c[2] = 0 THEN eng[c[1]] ELSE eng.engine[c[2]][c[1]]
SetCtr(eng, c, v) ==
    IF c[2] = 0 THEN [eng EXCEPT ![c[1]] = v]
    ELSE [eng EXCEPT !.engine[c[2]][c[1]] = v]

\* the group (its leader field and its counter count) a counter belongs to
GroupOf(c) ==
    CASE c[1] \in {"r_gpu", "r_pkg"} -> [fd |-> "rapl_fd", num |-> "num_rapl"]
      [] c[1] \in {"imc_reads", "imc_writes"} -> [fd |-> "imc_fd", num |-> "num_imc"]
      [] OTHER -> [fd |-> "fd", num |-> "num_counters"]

\* an open that numbers the counters of all groups with one shared count
OpenCounter_SharedCount(S, c, refused) ==
    IF c \in refused THEN [S EXCEPT !.ok = FALSE]
    ELSE LET g == GroupOf(c)
             fd == NewFd(S.fds)
             leader == IF S.eng[g.fd] = -1 THEN fd ELSE S.eng[g.fd]
             e1 == [S.eng EXCEPT ![g.fd] = leader]
             e2 == SetCtr(e1, c, [GetCtr(e1, c) EXCEPT
                                     !.present = TRUE,
                                     !.idx = Cardinality(S.fds),
                                     !.scale = IF g.fd = "fd" THEN 0 ELSE 1])
             e3 == [e2 EXCEPT ![g.num] = @ + 1]
             e4 == IF c[2] = 0 THEN e3
                   ELSE [e3 EXCEPT !.engine[c[2]].num_counters = @ + 1]
         IN  [eng |-> e4, ok |-> TRUE,
              fds |-> S.fds \cup {[fd |-> fd, leader |-> leader, ctr |-> c]}]

\* _open_pmu(), rapl_open(), imc_open(): open c in its group; S = [eng, fds, ok]
OpenCounter(S, c, refused) ==
    IF c \in refused THEN [S EXCEPT !.ok = FALSE]
    ELSE LET g == GroupOf(c)
             fd == NewFd(S.fds)
             leader == IF S.eng[g.fd] = -1 THEN fd ELSE S.eng[g.fd]
             e1 == [S.eng EXCEPT ![g.fd] = leader]
             e2 == SetCtr(e1, c, [GetCtr(e1, c) EXCEPT
                                     !.present = TRUE, !.idx = e1[g.num],
                                     !.scale = IF g.fd = "fd" THEN 0 ELSE 1])
             e3 == [e2 EXCEPT ![g.num] = @ + 1]
             e4 == IF c[2] = 0 THEN e3
                   ELSE [e3 EXCEPT !.engine[c[2]].num_counters = @ + 1]
         IN  [eng |-> e4, ok |-> TRUE,
              fds |-> S.fds \cup {[fd |-> fd, leader |-> leader, ctr |-> c]}]

RECURSIVE OpenAll(_, _, _, _)
OpenAll(S, cs, i, refused) ==
    IF i > Len(cs) THEN S
    ELSE Only({OpenAll(s, cs, i + 1, refused) :
               s \in {OpenCounter(S, cs[i], refused)}})

RECURSIVE EngineCounters(_, _)
\* busy, wait, sema of engines i .. n, in the order pmu_init opens them
EngineCounters(i, n) ==
    IF i > n THEN <<>>
    ELSE <<Ctr("busy", i), Ctr("wait", i), Ctr("sema", i)>>
         \o EngineCounters(i + 1, n)

\* every counter pmu_init tries to open after the IRQ counter, in order
OptionalCounters(eng) ==
    <<Ctr("freq_req", 0), Ctr("freq_act", 0), Ctr("rc6", 0)>>
    \o EngineCounters(1, eng.num_engines)
    \o (IF eng.discrete THEN <<>> ELSE <<Ctr("r_gpu", 0), Ctr("r_pkg", 0)>>)
    \o <<Ctr("imc_reads", 0), Ctr("imc_writes", 0)>>

\* a pmu_init that gives up on the first refused open, whichever it is
pmu_init_strict(eng0, fdset, refused) ==
    LET e0 == [eng0 EXCEPT !.fd = -1, !.num_counters = 0, !.rapl_fd = -1,
                           !.imc_fd = -1]
        s == OpenAll([eng |-> e0, fds |-> fdset, ok |-> TRUE],
                     <<Ctr("irq", 0)>> \o OptionalCounters(e0), 1, refused)
    IN  [s EXCEPT !.ok = \A c \in refused : c[2] <= Len(s.eng.engine)
                                              => GetCtr(s.eng, c).present]

\* pmu_init(): [eng, fds, ok]; ok = FALSE is the return value -1
pmu_init(eng0, fdset, refused) ==
    LET e0 == [eng0 EXCEPT !.fd = -1, !.num_counters = 0]
        s1 == OpenCounter([eng |-> e0, fds |-> fdset, ok |-> TRUE],
                          Ctr("irq", 0), refused)
    IN  IF ~s1.ok THEN s1
        ELSE LET e1 == [s1.eng EXCEPT !.rapl_fd = -1, !.imc_fd = -1]
                 s2 == OpenAll([s1 EXCEPT !.eng = e1], OptionalCounters(e1),
                               1, refused)
             IN  [s2 EXCEPT !.ok = TRUE]

(***************************************************************************)
(* The kernel side of a grouped read.  The clock and the counters advance  *)
(* together; every raw value is a uint64_t.                                *)
(***************************************************************************)
\* dt time units pass; the GPU works for half of them, rounded up
Advance(k, dt) ==
    [time |-> (k.time + dt) % U64, work |-> (k.work + (dt + 1) \div 2) % U64]

\* the raw value the kernel holds for counter c
KernelValue(k, c) ==
    CASE c[1] \in {"busy", "r_gpu", "imc_writes"} -> k.work
      [] c[1] \in {"sema", "wait"} -> k.work \div 2
      [] c[1] = "rc6" -> (k.time + U64 - k.work) % U64
      [] c[1] = "freq_req" -> (2 * k.time) % U64
      [] OTHER -> k.time

RECURSIVE MembersFrom(_, _, _, _)
\* the counters of the group led by leader, in the order they were opened
MembersFrom(fdset, leader, n, last) ==
    IF n > last THEN <<>>
    ELSE LET here == {f \in fdset : f.fd = n /\ f.leader = leader}
         IN  (IF here = {} THEN <<>> ELSE <<(CHOOSE f \in here : TRUE).ctr>>)
             \o MembersFrom(fdset, leader, n + 1, last)

GroupMembers(fdset, leader) ==
    MembersFrom(fdset, leader, 3, 3 + Cardinality(fdset))

\* read(fd, buf, ...) on a group leader: [nr][time][value_0] ... [value_N-1]
KernelRead(k, fdset, fd) ==
    LET m == GroupMembers(fdset, fd)
    IN  [words |-> 2 + Len(m), ts |-> k.time,
         val |-> [i \in 1..Len(m) |-> KernelValue(k, m[i])]]

\* a pmu_read_multi that does not look at the length read() returned
pmu_read_multi_unchecked(rd, num) ==
    [ok |-> TRUE, ts |-> rd.ts, val |-> rd.val]

\* pmu_read_multi(fd, num, val): ok is assert(len == sizeof(buf))
pmu_read_multi(rd, num) ==
    [ok |-> rd.words = 2 + num, ts |-> rd.ts, val |-> rd.val]

(***************************************************************************)
(* pmu_sample().                                                           *)
(***************************************************************************)
\* an update that stores the new value and keeps the old prev
update_sample_cur_only(counter, v) ==
    [counter EXCEPT !.val.cur = v]

__update_sample(counter, v) ==
    [counter EXCEPT !.val = [prev |-> counter.val.cur, cur |-> v]]

\* val[counter->idx] is val[idx + 1] of the 1-based sequence
update_sample(counter, val) ==
    IF counter.present THEN __update_sample(counter, val[counter.idx + 1])
    ELSE counter

\* update_sample() for busy, sema and wait of every engine
SampleEngines(table, val) ==
    [i \in 1..Len(table) |->
        [table[i] EXCEPT !.busy = update_sample(@, val),
                         !.sema = update_sample(@, val),
                         !.wait = update_sample(@, val)]]

\* a pmu_sample that stores the new timestamp and keeps ts.prev
pmu_sample_keep_prev(eng, rd_engine, rd_rapl, rd_imc) ==
    LET r1 == pmu_read_multi(rd_engine, eng.num_counters)
        e1 == [eng EXCEPT !.ts = [prev |-> eng.ts.prev, cur |-> r1.ts],
                          !.freq_req = update_sample(@, r1.val),
                          !.freq_act = update_sample(@, r1.val),
                          !.irq = update_sample(@, r1.val),
                          !.rc6 = update_sample(@, r1.val),
                          !.engine = SampleEngines(@, r1.val)]
    IN  [ok |-> r1.ok, eng |-> e1, reads |-> <<eng.fd>>]

\* a pmu_sample that reads all three groups, with or without counters
pmu_sample_reads_all(eng, rd_engine, rd_rapl, rd_imc) ==
    LET r1 == pmu_read_multi(rd_engine, eng.num_counters)
        e1 == [eng EXCEPT !.ts = [prev |-> eng.ts.cur, cur |-> r1.ts],
                          !.freq_req = update_sample(@, r1.val),
                          !.freq_act = update_sample(@, r1.val),
                          !.irq = update_sample(@, r1.val),
                          !.rc6 = update_sample(@, r1.val),
                          !.engine = SampleEngines(@, r1.val)]
        r2 == pmu_read_multi(rd_rapl, eng.num_rapl)
        e2 == IF eng.num_rapl = 0 THEN e1
              ELSE [e1 EXCEPT !.r_gpu = update_sample(@, r2.val),
                              !.r_pkg = update_sample(@, r2.val)]
        r3 == pmu_read_multi(rd_imc, eng.num_imc)
        e3 == IF eng.num_imc = 0 THEN e2
              ELSE [e2 EXCEPT !.imc_reads = update_sample(@, r3.val),
                              !.imc_writes = update_sample(@, r3.val)]
        rd1 == <<eng.fd>>
        rd2 == rd1 \o <<eng.rapl_fd>>
        rd3 == rd2 \o <<eng.imc_fd>>
    IN  IF ~r1.ok
        THEN [ok |-> FALSE, eng |-> [eng EXCEPT !.ts.prev = eng.ts.cur],
              reads |-> rd1]
        ELSE IF eng.num_rapl # 0 /\ ~r2.ok
        THEN [ok |-> FALSE, eng |-> e1, reads |-> rd2]
        ELSE IF eng.num_imc # 0 /\ ~r3.ok
        THEN [ok |-> FALSE, eng |-> e2, reads |-> rd3]
        ELSE [ok |-> TRUE, eng |-> e3, reads |-> rd3]

\* pmu_sample(engines) given what the three group reads return;
\* ok = FALSE when an assert of pmu_read_multi fails; reads is the
\* descriptors pmu_read_multi was called with, in call order
pmu_sample(eng, rd_engine, rd_rapl, rd_imc) ==
    LET r1 == pmu_read_multi(rd_engine, eng.num_counters)
        e1 == [eng EXCEPT !.ts = [prev |-> eng.ts.cur, cur |-> r1.ts],
                          !.freq_req = update_sample(@, r1.val),
                          !.freq_act = update_sample(@, r1.val),
                          !.irq = update_sample(@, r1.val),
                          !.rc6 = update_sample(@, r1.val),
                          !.engine = SampleEngines(@, r1.val)]
        r2 == pmu_read_multi(rd_rapl, eng.num_rapl)
        e2 == IF eng.num_rapl = 0 THEN e1
              ELSE [e1 EXCEPT !.r_gpu = update_sample(@, r2.val),
                              !.r_pkg = update_sample(@, r2.val)]
        r3 == pmu_read_multi(rd_imc, eng.num_imc)
        e3 == IF eng.num_imc = 0 THEN e2
              ELSE [e2 EXCEPT !.imc_reads = update_sample(@, r3.val),
                              !.imc_writes = update_sample(@, r3.val)]
        rd1 == <<eng.fd>>
        rd2 == rd1 \o (IF eng.num_rapl = 0 THEN <<>> ELSE <<eng.rapl_fd>>)
        rd3 == rd2 \o (IF eng.num_imc = 0 THEN <<>> ELSE <<eng.imc_fd>>)
    IN  IF ~r1.ok
        THEN [ok |-> FALSE, eng |-> [eng EXCEPT !.ts.prev = eng.ts.cur],
              reads |-> rd1]
        ELSE IF eng.num_rapl # 0 /\ ~r2.ok
        THEN [ok |-> FALSE, eng |-> e1, reads |-> rd2]
        ELSE IF eng.num_imc # 0 /\ ~r3.ok
        THEN [ok |-> FALSE, eng |-> e2, reads |-> rd3]
        ELSE [ok |-> TRUE, eng |-> e3, reads |-> rd3]

\* what read() on the leader of group g returns: the whole buffer, or only
\* fault.words 64-bit words of it when the fault is on this group
ReadGroup(k, fdset, eng, g, fault) ==
    IF fault # NULL /\ Deref(fault).group = g
    THEN [KernelRead(k, fdset, eng[g]) EXCEPT !.words = Deref(fault).words]
    ELSE KernelRead(k, fdset, eng[g])

\* pmu_sample() against the kernel k and the descriptors fdset
SampleNow(eng, k, fdset, fault) ==
    Only({pmu_sample(eng, rd_engine, rd_rapl, rd_imc) :
          rd_engine \in {ReadGroup(k, fdset, eng, "fd", fault)},
          rd_rapl \in {ReadGroup(k, fdset, eng, "rapl_fd", fault)},
          rd_imc \in {ReadGroup(k, fdset, eng, "imc_fd", fault)}})

(***************************************************************************)
(* pmu_calc().  d is the divisor of the item (1, or NSEC where the source  *)
(* has 1e9 ns), t and s are fractions.                                     *)
(***************************************************************************)
Frac(n, d) == [n |-> n, d |-> d]

\* v = p->cur - p->prev, in uint64_t arithmetic
PairDelta(p) == (p.cur + U64 - p.prev) % U64

\* v > 100.0 for a double v (+inf is, NaN is not)
Exceeds100(v) == IF v.d = 0 THEN v.n > 0 ELSE v.n > 100 * v.d

\* s == 100.0
IsPercentScale(s) == s.d # 0 /\ s.n = 100 * s.d

\* v /= d; v /= t; v *= s
RawRate(p, d, t, s) == Frac(PairDelta(p) * t.d * s.n, d * t.n * s.d)

\* pmu_calc without the saturation rule
pmu_calc_unclamped(p, d, t, s) == RawRate(p, d, t, s)

pmu_calc(p, d, t, s) ==
    LET v == RawRate(p, d, t, s)
    IN  IF IsPercentScale(s) /\ Exceeds100(v) THEN Frac(100, 1) ELSE v

(***************************************************************************)
(* The renderers.  R is the state a renderer reads and writes: the tokens  *)
(* written, the JSON and plain-text globals, the item buffers of the       *)
(* interactive mode, ok (no assert has failed) and ret (the last return    *)
(* value).  A failed assert stops everything after it.                     *)
(***************************************************************************)
JSON_INDENT_SIZE == 6
INT_MAX == 2147483647

NoName == <<"", -1>>
Name(str) == <<str, -1>>

Tok(k, g, i, n, d, c) == [k |-> k, g |-> g, i |-> i, n |-> n, d |-> d, c |-> c]

Item(pmu, w, prec, d, t, s, name, unit) ==
    [pmu |-> pmu, fmt_width |-> w, fmt_precision |-> prec, d |-> d, t |-> t,
     s |-> s, name |-> name, unit |-> unit]
UnitItem(unit) == Item(NULL, 0, 0, 0, Frac(0, 1), Frac(0, 1), "unit", unit)
Group(name, display_name, items) ==
    [name |-> name, display_name |-> display_name, items |-> items]

Emit(R, tok) == [R EXCEPT !.out = Append(@, tok)]
Fail(R) == [R EXCEPT !.ok = FALSE]

\* a json_open_struct that leaves json_struct_members as it is
json_open_struct_noreset(R, name) ==
    IF ~(R.json_indent_level < JSON_INDENT_SIZE) THEN Fail(R)
    ELSE [Emit(R, Tok("open", name, "", R.json_indent_level, 0,
                      R.json_struct_members # 0))
          EXCEPT !.json_prev_struct_members = R.json_struct_members,
                 !.json_indent_level = @ + 1]

json_open_struct(R, name) ==
    IF ~(R.json_indent_level < JSON_INDENT_SIZE) THEN Fail(R)
    ELSE [Emit(R, Tok("open", name, "", R.json_indent_level, 0,
                      R.json_struct_members # 0))
          EXCEPT !.json_prev_struct_members = R.json_struct_members,
                 !.json_struct_members = 0,
                 !.json_indent_level = @ + 1]

json_close_struct(R) ==
    IF ~(R.json_indent_level > 0) THEN Fail(R)
    ELSE [Emit(R, Tok("close", NoName, "", R.json_indent_level - 1, 0, FALSE))
          EXCEPT !.json_indent_level = @ - 1]

json_add_member(R, parent, item, headers) ==
    IF ~(R.json_indent_level < JSON_INDENT_SIZE) THEN Fail(R)
    ELSE LET c == R.json_struct_members # 0
             v == IF item.name = "unit" THEN Frac(0, 0)
                  ELSE pmu_calc(Deref(item.pmu).val, item.d, item.t, item.s)
             k == IF item.name = "unit" THEN "unit" ELSE "member"
         IN  [Emit(R, Tok(k, parent.name, item.name, v.n, v.d, c))
              EXCEPT !.json_struct_members = @ + 1, !.ret = 1]

stdout_open_struct(R, name) == [R EXCEPT !.stdout_level = @ + 1]

\* what the line that ends here holds: the tokens since the last newline
LineKind(toks) ==
    LET last == Max(0, CHOOSE i \in 0..Len(toks) :
                        /\ i = 0 \/ toks[i].k = "nl"
                        /\ \A j \in (i + 1)..Len(toks) : toks[j].k # "nl")
        line == {toks[j].k : j \in (last + 1)..Len(toks)}
    IN  IF "h1" \in line THEN "h1" ELSE IF "h2" \in line THEN "h2" ELSE "data"

stdout_close_struct(R) ==
    IF ~(R.stdout_level > 0) THEN Fail(R)
    ELSE IF R.stdout_level - 1 = 0
    THEN [Emit(R, Tok("nl", NoName, "", 0, 0, FALSE))
          EXCEPT !.stdout_level = 0, !.stdout_lines = @ + 1,
                 !.rows = Append(@, LineKind(R.out))]
    ELSE [R EXCEPT !.stdout_level = @ - 1]

fmt_tot(item) == item.fmt_width + (IF item.fmt_precision # 0 THEN 1 ELSE 0)

RECURSIVE grp_tot(_, _)
\* for (it = parent->items; it->pmu; it++) of stdout_add_member
grp_tot(items, i) ==
    IF i > Len(items) \/ items[i].pmu = NULL THEN 0
    ELSE (IF Deref(items[i].pmu).present THEN 1 + fmt_tot(items[i]) ELSE 0)
         + grp_tot(items, i + 1)

stdout_add_member(R, parent, item, idx, headers) ==
    IF item.pmu = NULL THEN [R EXCEPT !.ret = 0]
    ELSE IF ~Deref(item.pmu).present THEN [R EXCEPT !.ret = 0]
    ELSE IF headers = 1
    THEN IF idx # 1 THEN [R EXCEPT !.ret = 0]
         ELSE [Emit(R, Tok("h1", parent.name, "", grp_tot(parent.items, 1) - 1,
                           0, FALSE)) EXCEPT !.ret = 0]
    ELSE IF headers = 2
    THEN [Emit(R, Tok("h2", parent.name, item.name, fmt_tot(item), 0, FALSE))
          EXCEPT !.ret = 0]
    ELSE LET v == pmu_calc(Deref(item.pmu).val, item.d, item.t, item.s)
         IN  [Emit(R, Tok("data", parent.name, item.name, v.n, v.d, FALSE))
              EXCEPT !.ret = fmt_tot(item) + 1]

(***************************************************************************)
(* Strings, for the metric names of Prometheus mode.  A C string is the    *)
(* sequence of its characters; Chars gives it for the literals of the      *)
(* source.                                                                 *)
(***************************************************************************)
Chars(str) ==
    CASE str = "frequency" ->
           <<"f", "r", "e", "q", "u", "e", "n", "c", "y">>
      [] str = "interrupts" ->
           <<"i", "n", "t", "e", "r", "r", "u", "p", "t", "s">>
      [] str = "rc6" ->
           <<"r", "c", "6">>
      [] str = "power" ->
           <<"p", "o", "w", "e", "r">>
      [] str = "imc-bandwidth" ->
           <<"i", "m", "c", "-", "b", "a", "n", "d", "w", "i", "d",
           "t", "h">>
      [] str = "period" ->
           <<"p", "e", "r", "i", "o", "d">>
      [] str = "engines" ->
           <<"e", "n", "g", "i", "n", "e", "s">>
      [] str = "Render/3D" ->
           <<"R", "e", "n", "d", "e", "r", "/", "3", "D">>
      [] str = "Blitter" ->
           <<"B", "l", "i", "t", "t", "e", "r">>
      [] str = "Video" ->
           <<"V", "i", "d", "e", "o">>
      [] str = "VideoEnhance" ->
           <<"V", "i", "d", "e", "o", "E", "n", "h", "a", "n", "c",
           "e">>
      [] str = "[unknown]" ->
           <<"[", "u", "n", "k", "n", "o", "w", "n", "]">>
      [] str = "requested" ->
           <<"r", "e", "q", "u", "e", "s", "t", "e", "d">>
      [] str = "actual" ->
           <<"a", "c", "t", "u", "a", "l">>
      [] str = "count" ->
           <<"c", "o", "u", "n", "t">>
      [] str = "value" ->
           <<"v", "a", "l", "u", "e">>
      [] str = "GPU" ->
           <<"G", "P", "U">>
      [] str = "Package" ->
           <<"P", "a", "c", "k", "a", "g", "e">>
      [] str = "reads" ->
           <<"r", "e", "a", "d", "s">>
      [] str = "writes" ->
           <<"w", "r", "i", "t", "e", "s">>
      [] str = "busy" ->
           <<"b", "u", "s", "y">>
      [] str = "sema" ->
           <<"s", "e", "m", "a">>
      [] str = "wait" ->
           <<"w", "a", "i", "t">>
      [] str = "unit" ->
           <<"u", "n", "i", "t">>
      [] str = "duration" ->
           <<"d", "u", "r", "a", "t", "i", "o", "n">>
      [] str = "intel_gpu_top_" ->
           <<"i", "n", "t", "e", "l", "_", "g", "p", "u", "_", "t",
           "o", "p", "_">>

UpperCase ==
    <<"A", "B", "C", "D", "E", "F", "G", "H", "I", "J", "K", "L", "M",
    "N", "O", "P", "Q", "R", "S", "T", "U", "V", "W", "X", "Y", "Z">>
LowerCase ==
    <<"a", "b", "c", "d", "e", "f", "g", "h", "i", "j", "k", "l", "m",
    "n", "o", "p", "q", "r", "s", "t", "u", "v", "w", "x", "y", "z">>
DigitChars == <<"0", "1", "2", "3", "4", "5", "6", "7", "8", "9">>

\* tolower(c) in the C locale
\* the lower-case letter of every upper-case letter
LowerOf ==
    [c \in {UpperCase[i] : i \in 1..Len(UpperCase)} |->
        LowerCase[CHOOSE i \in 1..Len(UpperCase) : UpperCase[i] = c]]

tolower(c) == IF c \in DOMAIN LowerOf THEN LowerOf[c] ELSE c

\* (c >= '0' && c <= '9') || (c >= 'a' && c <= 'z')
IsDigitOrLower(c) ==
    c \in {DigitChars[i] : i \in 1..Len(DigitChars)}
           \cup {LowerCase[i] : i \in 1..Len(LowerCase)}

RECURSIVE Decimal(_)
\* what %u prints
Decimal(n) ==
    IF n < 10 THEN <<DigitChars[n + 1]>>
    ELSE Decimal(n \div 10) \o <<DigitChars[(n % 10) + 1]>>

\* the characters of a group name: a literal, or "%s/%u" of a class name
\* and an instance (no instance for the engine of a class)
NameChars(name) ==
    Chars(name[1])
    \o (IF name[2] >= 0 THEN <<"/">> \o Decimal(name[2]) ELSE <<>>)

\* char parent_name_key[20]; char item_name_key[20];
KEY_SIZE == 20

\* snprintf(key, sizeof(key), "%s", str): at most sizeof(key) - 1 characters
KeyCopy(str) ==
    Only({SubSeq(a, 1, Min(Len(a), KEY_SIZE - 1)) : a \in {str}})

\* a parent key that is lower-cased and nothing more
parent_name_key_lower(str) ==
    Only({[i \in 1..Len(key) |-> tolower(key[i])] : key \in {KeyCopy(str)}})

\* the first loop: every character lower-cased, then '_' unless [0-9a-z]
parent_name_key(str) ==
    Only({[i \in 1..Len(key) |->
             Only({IF IsDigitOrLower(c) THEN c ELSE "_" :
                   c \in {tolower(key[i])}})] :
          key \in {KeyCopy(str)}})

\* the second loop runs while parent_name_key[i] is not 0: the characters of
\* the item key up to the length of the parent key are lower-cased, none is
\* replaced; what it touches past the terminator is not part of the string
item_name_key(str, parent_key) ==
    Only({[i \in 1..Len(key) |->
             IF i <= Len(parent_key) THEN tolower(key[i]) ELSE key[i]] :
          key \in {KeyCopy(str)}})

\* "intel_gpu_top_%s_%s" of the two keys
MetricName(parent, item) ==
    Only({Chars("intel_gpu_top_") \o pk \o <<"_">>
          \o item_name_key(Chars(item.name), pk) :
          pk \in {parent_name_key(NameChars(parent.name))}})

\* one line of the exposition block
PromLine(k, parent, item, v, name) ==
    [k |-> k, g |-> parent.name, i |-> item.name, n |-> v.n, d |-> v.d,
     c |-> FALSE, name |-> name]

\* "# HELP <name> ...", "# TYPE <name> gauge", "<name> <value>"
prometheus_add_member(R, parent, item, headers) ==
    IF item.pmu = NULL THEN [R EXCEPT !.ret = 0]
    ELSE IF ~Deref(item.pmu).present THEN [R EXCEPT !.ret = 0]
    ELSE Only({[R EXCEPT !.ret = 1,
                         !.out = @ \o <<PromLine("help", parent, item,
                                                 Frac(0, 0), name),
                                        PromLine("type", parent, item,
                                                 Frac(0, 0), name),
                                        PromLine("metric", parent, item, v,
                                                 name)>>] :
               v \in {pmu_calc(Deref(item.pmu).val, item.d, item.t, item.s)},
               name \in {MetricName(parent, item)}})

\* item->buf: dashes for an absent counter, else the formatted value
BufKey(parent, item) == [g |-> parent.name, i |-> item.name]
term_add_member(R, parent, item, headers) ==
    IF item.pmu = NULL THEN [R EXCEPT !.ret = 0]
    ELSE IF ~Deref(item.pmu).present
    THEN [R EXCEPT !.ret = 1,
                   !.buf = (BufKey(parent, item) :>
                              Tok("dashes", parent.name, item.name, 0, 0, FALSE))
                           @@ @]
    ELSE LET v == pmu_calc(Deref(item.pmu).val, item.d, item.t, item.s)
         IN  [R EXCEPT !.ret = 1,
                       !.buf = (BufKey(parent, item) :>
                                  Tok("field", parent.name, item.name, v.n, v.d,
                                      FALSE))
                               @@ @]

\* the struct print_operations of the output mode
open_struct(R, name, mode) ==
    IF ~R.ok THEN R
    ELSE CASE mode = "JSON" -> json_open_struct(R, name)
           [] mode = "STDOUT" -> stdout_open_struct(R, name)
           [] OTHER -> R

close_struct(R, mode) ==
    IF ~R.ok THEN R
    ELSE CASE mode = "JSON" -> json_close_struct(R)
           [] mode = "STDOUT" -> stdout_close_struct(R)
           [] OTHER -> R

\* pops->add_member(parent, item, headers); R.driven keeps the calls made
add_member(R, parent, idx, headers, mode) ==
    IF ~R.ok THEN R
    ELSE Only({CASE mode = "JSON" -> json_add_member(r, parent, item, headers)
                 [] mode = "STDOUT" ->
                      stdout_add_member(r, parent, item, idx, headers)
                 [] mode = "PROMETHEUS" ->
                      prometheus_add_member(r, parent, item, headers)
                 [] OTHER -> term_add_member(r, parent, item, headers) :
               item \in {parent.items[idx]},
               r \in {[R EXCEPT !.driven =
                          Append(@, <<parent.name, parent.items[idx].name,
                                      headers>>)]}})

present_in_group(grp) ==
    Cardinality({i \in 1..Len(grp.items) :
                    grp.items[i].pmu # NULL /\ Deref(grp.items[i].pmu).present})

RECURSIVE AddMembers(_, _, _, _, _, _)
\* for (item = grp->items; item->name; item++) consumed += add_member(...)
AddMembers(R, grp, i, headers, mode, consumed) ==
    IF i > Len(grp.items) THEN [R EXCEPT !.ret = consumed]
    ELSE Only({AddMembers(r, grp, i + 1, headers, mode, consumed + r.ret) :
               r \in {add_member(R, grp, i, headers, mode)}})

\* print_group(), prometheus_print_group(), term_print_group(); ret is the
\* bool they return
print_group(R, grp, headers, mode) ==
    IF ~R.ok THEN R
    ELSE IF mode # "INTERACTIVE" /\ present_in_group(grp) = 0
    THEN [R EXCEPT !.ret = FALSE]
    ELSE Only({[close_struct(r2, mode) EXCEPT !.ret = (r2.ret # 0)] :
               r2 \in {AddMembers(r1, grp, 1, headers, mode, 0) :
                       r1 \in {open_struct(R, grp.name, mode)}}})

RECURSIVE PrintEach(_, _, _, _, _, _)
\* for (grp = groups; *grp; grp++) print_data = print_group(*grp, headers)
PrintEach(R, groups, i, headers, mode, print_data) ==
    IF i > Len(groups) THEN [R EXCEPT !.ret = print_data]
    ELSE Only({PrintEach(r, groups, i + 1, headers, mode, r.ret) :
               r \in {print_group(R, groups[i], headers, mode)}})

\* a first loop that never prints a header line
PrintHeaders_Never(R, groups, headers, mode) == [R EXCEPT !.ret = TRUE]

\* the first loop of print_groups: the header lines of plain-text mode
PrintHeaders(R, groups, headers, mode) ==
    IF mode = "STDOUT" /\ (headers = 1 \/ headers = 2)
    THEN PrintEach(R, groups, 1, headers, mode, TRUE)
    ELSE [R EXCEPT !.ret = TRUE]

\* the second loop, on the state r1 and print_data the first loop left
PrintData(r1, groups, print_data, mode) ==
    [(IF print_data THEN PrintEach(r1, groups, 1, 0, mode, TRUE) ELSE r1)
     EXCEPT !.ret = print_data]

print_groups(R, groups, mode) ==
    Only({PrintData(r1, groups, r1.ret, mode) :
          r1 \in {PrintHeaders(r, groups,
                               (r.stdout_lines % STDOUT_HEADER_REPEAT) + 1,
                               mode) : r \in {R}}})

(***************************************************************************)
(* print_header(), print_imc().  R.lines is the running line count of the  *)
(* interactive screen, R.consumed what print_header stores in *consumed.   *)
(***************************************************************************)
fake_pmu == [idx |-> 0, val |-> [cur |-> 1, prev |-> 0], scale |-> 0, present |-> TRUE]

One == Frac(1, 1)
Percent == Frac(100, 1)

period_group(t) ==
    Group(Name("period"), NoName,
          <<Item(Ptr(fake_pmu), 0, 0, 1, One, Frac(t.n * 1000, t.d), "duration", ""),
            UnitItem("ms")>>)
freq_group(eng, t) ==
    Group(Name("frequency"), Name("Freq MHz"),
          <<Item(Ptr(eng.freq_req), 4, 0, 1, t, One, "requested", "req"),
            Item(Ptr(eng.freq_act), 4, 0, 1, t, One, "actual", "act"),
            UnitItem("MHz")>>)
irq_group(eng, t) ==
    Group(Name("interrupts"), Name("IRQ"),
          <<Item(Ptr(eng.irq), 8, 0, 1, t, One, "count", "/s"),
            UnitItem("irq/s")>>)
rc6_group(eng, t) ==
    Group(Name("rc6"), Name("RC6"),
          <<Item(Ptr(eng.rc6), 3, 0, NSEC, t, Percent, "value", "%"),
            UnitItem("%")>>)
power_group(eng, t) ==
    Group(Name("power"), Name("Power W"),
          <<Item(Ptr(eng.r_gpu), 4, 2, 1, t, Frac(eng.r_gpu.scale, 1), "GPU", "gpu"),
            Item(Ptr(eng.r_pkg), 4, 2, 1, t, Frac(eng.r_pkg.scale, 1), "Package", "pkg"),
            UnitItem("W")>>)
imc_group(eng, t) ==
    Group(Name("imc-bandwidth"), Name("IMC"),
          <<Item(Ptr(eng.imc_reads), 6, 0, 1, t, Frac(eng.imc_reads.scale, 1),
                 "reads", "rd"),
            Item(Ptr(eng.imc_writes), 6, 0, 1, t, Frac(eng.imc_writes.scale, 1),
                 "writes", "wr"),
            UnitItem("/s")>>)

\* a line that is printed whatever the height
PrintLine_Always(R, what, con_h) ==
    [Emit(R, Tok("line", NoName, what, 0, 0, FALSE)) EXCEPT !.lines = @ + 1]

\* if (lines++ < con_h) printf(a line of kind what)
PrintLine(R, what, con_h) ==
    Only({[(IF r.lines < con_h
            THEN Emit(r, Tok("line", NoName, what, 0, 0, FALSE)) ELSE r)
           EXCEPT !.lines = @ + 1] : r \in {R}})

\* printf("%s", item->buf)
PrintBuf(R, grp, i) ==
    Only({Emit(r, r.buf[BufKey(grp, grp.items[i])]) : r \in {R}})

\* a groups array that keeps the period group in every mode
HeaderGroups_WithPeriod(eng, t, mode) ==
    <<period_group(t), freq_group(eng, t), irq_group(eng, t),
      rc6_group(eng, t), power_group(eng, t)>>

\* the groups array of print_header
HeaderGroups(eng, t, mode) ==
    (IF mode = "JSON" THEN <<period_group(t)>> ELSE <<>>)
    \o <<freq_group(eng, t), irq_group(eng, t), rc6_group(eng, t),
         power_group(eng, t)>>

\* the buffers the summary line prints: act/req MHz, RC6, then power, irqs/s
SummaryPower(R, eng, pg) ==
    IF eng.r_gpu.present THEN PrintBuf(PrintBuf(R, pg, 1), pg, 2) ELSE R
SummaryFields(R, eng, fg, ig, rg, pg) ==
    PrintBuf(SummaryPower(PrintBuf(PrintBuf(PrintBuf(R, fg, 2), fg, 1), rg, 1),
                          eng, pg),
             ig, 1)

\* if (output_mode == INTERACTIVE) { the summary line; a blank line }
HeaderLines(R, eng, t, con_h) ==
    PrintLine(PrintLine(IF R.lines < con_h
                        THEN Only({SummaryFields(R, eng, fg, ig, rg, pg) :
                                   fg \in {freq_group(eng, t)},
                                   ig \in {irq_group(eng, t)},
                                   rg \in {rc6_group(eng, t)},
                                   pg \in {power_group(eng, t)}})
                        ELSE R,
                        "summary", con_h),
              "blank", con_h)

print_header(R, eng, t, con_h, mode) ==
    Only({IF r3.ok /\ mode = "INTERACTIVE" THEN HeaderLines(r3, eng, t, con_h)
          ELSE r3 :
          r3 \in {[r2 EXCEPT !.consumed = r2.ret] :
                  r2 \in {print_groups(r1, groups, mode) :
                          r1 \in {open_struct(R, NoName, mode)},
                          groups \in {HeaderGroups(eng, t, mode)}}}})

\* if (lines++ < con_h) printf("... %s %s/s what", item->buf)
ImcLine(R, g, i, what, con_h) ==
    Only({PrintLine(IF r.lines < con_h THEN PrintBuf(r, g, i) ELSE r,
                    what, con_h) : r \in {R}})

\* if (output_mode == INTERACTIVE) { reads; writes; a blank line }
ImcLines(R, g, con_h) ==
    PrintLine(ImcLine(ImcLine(R, g, 1, "imc_reads", con_h),
                      g, 2, "imc_writes", con_h),
              "blank", con_h)

print_imc(R, eng, t, con_h, mode) ==
    IF ~R.ok \/ eng.num_imc = 0 THEN R
    ELSE Only({Only({IF r1.ok /\ mode = "INTERACTIVE"
                     THEN ImcLines(r1, g, con_h) ELSE r1 :
                     r1 \in {print_groups(R, <<g>>, mode)}}) :
               g \in {imc_group(eng, t)}})

(***************************************************************************)
(* The class view: init_engine_classes(), init_class_engines(),            *)
(* update_class_engines().                                                 *)
(***************************************************************************)
\* max of engine->class over the table, -1 for an empty one
MaxClass(table) ==
    IF table = <<>> THEN -1
    ELSE CHOOSE m \in {table[i].class : i \in 1..Len(table)} :
            \A i \in 1..Len(table) : table[i].class <= m

\* init_engine_classes(): entry c + 1 is classes[c]
init_engine_classes(eng) ==
    [c \in 1..(MaxClass(eng.engine) + 1) |->
        [class |-> c - 1,
         num_engines |-> Cardinality({i \in 1..Len(eng.engine) :
                                         eng.engine[i].class = c - 1})]]

\* the "class engine" of class c: metadata of the first real engine of c
ClassEngine(eng, c) ==
    LET k == CHOOSE k \in 1..Len(eng.engine) :
                /\ eng.engine[k].class = c
                /\ \A j \in 1..(k - 1) : eng.engine[j].class # c
        e == eng.engine[k]
    IN  [config |-> 0, class |-> c, instance |-> -1,
         num_counters |-> e.num_counters,
         busy |-> e.busy, wait |-> e.wait, sema |-> e.sema]

RECURSIVE ClassEngines(_, _, _)
ClassEngines(eng, cls, i) ==
    IF i > Len(cls) THEN <<>>
    ELSE (IF cls[i].num_engines = 0 THEN <<>>
          ELSE <<ClassEngine(eng, cls[i].class)>>)
         \o ClassEngines(eng, cls, i + 1)

init_class_engines(eng) ==
    LET cls == init_engine_classes(eng)
        table == ClassEngines(eng, cls, 1)
    IN  [num_engines |-> Len(table), num_classes |-> Len(cls),
         class |-> cls, engine |-> table]

__pmu_sum(dst, src) ==
    [prev |-> (dst.prev + src.prev) % U64, cur |-> (dst.cur + src.cur) % U64]

\* a normalisation that leaves the sums as they are
pmu_normalize_none(val, n) == val

__pmu_normalize(val, n) == [prev |-> val.prev \div n, cur |-> val.cur \div n]

RECURSIVE SumClass(_, _, _, _, _)
\* the j loop of update_class_engines for counter kind of class c
SumClass(table, c, kind, j, acc) ==
    IF j > Len(table) THEN acc
    ELSE SumClass(table, c, kind, j + 1,
                  IF table[j].class = c THEN __pmu_sum(acc, table[j][kind].val)
                  ELSE acc)

\* one counter of a class engine after the refresh
ClassVal(eng, ce, kind, n) ==
    __pmu_normalize(SumClass(eng.engine, ce.class, kind, 1,
                             [prev |-> 0, cur |-> 0]), n)

\* the body of update_class_engines once classes exists
RefreshClasses(cl, eng) ==
    [cl EXCEPT !.engine =
        [i \in 1..Len(cl.engine) |->
            LET ce == cl.engine[i]
                n == cl.class[ce.class + 1].num_engines
            IN  [ce EXCEPT !.busy.val = ClassVal(eng, ce, "busy", n),
                           !.sema.val = ClassVal(eng, ce, "sema", n),
                           !.wait.val = ClassVal(eng, ce, "wait", n)]]]

\* an update_class_engines whose classes pointer is not static: the table
\* is built anew on every call
update_class_engines_rebuild(R, eng) ==
    IF MaxClass(eng.engine) < 0 THEN Fail(R)
    ELSE [R EXCEPT !.classes = Ptr(RefreshClasses(init_class_engines(eng), eng)),
                   !.built = @ + 1]

\* update_class_engines(): R.classes is the static pointer; the assert of
\* init_engine_classes (max >= 0) fails for an empty engine table
update_class_engines(R, eng) ==
    IF R.classes = NULL /\ MaxClass(eng.engine) < 0 THEN Fail(R)
    ELSE LET cl == IF R.classes = NULL THEN init_class_engines(eng)
                   ELSE Deref(R.classes)
         IN  [R EXCEPT !.classes = Ptr(RefreshClasses(cl, eng)),
                       !.built = IF R.classes = NULL THEN @ + 1 ELSE @]

(***************************************************************************)
(* print_engines(): header, one row per engine, footer.                    *)
(***************************************************************************)
EngineName(e) == <<class_display_name(e.class), e.instance>>
EngineShortName(e) == <<class_short_name(e.class), e.instance>>

engine_group(e, t) ==
    Group(EngineName(e), EngineShortName(e),
          <<Item(Ptr(e.busy), 6, 2, NSEC, t, Percent, "busy", "%"),
            Item(Ptr(e.sema), 3, 0, NSEC, t, Percent, "sema", "se"),
            Item(Ptr(e.wait), 3, 0, NSEC, t, Percent, "wait", "wa"),
            UnitItem("%")>>)

\* the loop of print_engines_header runs into an engine with counters
HeaderOpens(table, lines, con_h) ==
    \E i \in 1..Len(table) : table[i].num_counters # 0 /\ lines < con_h

print_engines_header(R, table, con_h, mode) ==
    IF ~R.ok \/ ~HeaderOpens(table, R.lines, con_h) THEN R
    ELSE Only({IF mode = "INTERACTIVE" /\ r1.ok
               THEN [Emit(r1, Tok("line", NoName, "engines_header", 0, 0, FALSE))
                     EXCEPT !.lines = @ + 1]
               ELSE r1 :
               r1 \in {open_struct(R, Name("engines"), mode)}})

\* the interactive row: busy buffer, the bar of val, sema and wait buffers
EngineLine(R, g, v) ==
    [Emit(PrintBuf(PrintBuf(Emit(PrintBuf(R, g, 1),
                                 Tok("bar", g.name, "busy", v.n, v.d, FALSE)),
                            g, 2),
                   g, 3),
          Tok("line", g.name, "engine", 0, 0, FALSE))
     EXCEPT !.lines = @ + 1]

print_engine(R, e, t, mode) ==
    IF ~R.ok \/ e.num_counters = 0 THEN R
    ELSE Only({Only({IF r1.ok /\ mode = "INTERACTIVE"
                     THEN EngineLine(r1, g, v) ELSE r1 :
                     r1 \in {print_groups(R, <<g>>, mode)}}) :
               g \in {engine_group(e, t)},
               v \in {pmu_calc(e.busy.val, NSEC, t, Percent)}})

RECURSIVE PrintEngineRows(_, _, _, _, _, _)
\* for (i = 0; i < show->num_engines && lines < h; i++) print_engine(...)
PrintEngineRows(R, table, i, t, con_h, mode) ==
    IF i > Len(table) \/ ~(R.lines < con_h) THEN R
    ELSE Only({PrintEngineRows(r, table, i + 1, t, con_h, mode) :
               r \in {print_engine(R, table[i], t, mode)}})

print_engines_footer(R, con_h, mode) ==
    Only({IF mode = "INTERACTIVE" /\ r1.ok THEN PrintLine(r1, "blank", con_h)
          ELSE r1 :
          r1 \in {close_struct(r, mode) : r \in {close_struct(R, mode)}}})

\* header, rows and footer for the table show
ShowEngines(R, show, t, con_h, mode) ==
    Only({print_engines_footer(r2, con_h, mode) :
          r2 \in {PrintEngineRows(r1, show, 1, t, con_h, mode) :
                  r1 \in {print_engines_header(R, show, con_h, mode)}}})

\* a print_engines that keeps showing the class table once it exists
print_engines_sticky(R, eng, cview, t, con_h, mode) ==
    Only({IF ~r0.ok THEN r0
          ELSE ShowEngines(r0, IF r0.classes # NULL THEN Deref(r0.classes).engine
                               ELSE eng.engine,
                           t, con_h, mode) :
          r0 \in {IF cview THEN update_class_engines(R, eng) ELSE R}})

\* show = class_view ? update_class_engines(engines) : engines
print_engines(R, eng, cview, t, con_h, mode) ==
    Only({IF ~r0.ok THEN r0
          ELSE ShowEngines(r0, IF cview THEN Deref(r0.classes).engine
                               ELSE eng.engine,
                           t, con_h, mode) :
          r0 \in {IF cview THEN update_class_engines(R, eng) ELSE R}})

RECURSIVE RenderSample(_, _, _, _, _, _)
\* while (!consumed) { print_header(); print_imc(); print_engines(); }
RenderSample(R, eng, cview, t, con_h, mode) ==
    IF ~R.ok \/ R.consumed THEN R
    ELSE Only({RenderSample(r3, eng, cview, t, con_h, mode) :
               r3 \in {print_engines(r2, eng, cview, t, con_h, mode) :
                       r2 \in {print_imc(r1, eng, t, con_h, mode) :
                               r1 \in {print_header(R, eng, t, con_h, mode)}}}})

(***************************************************************************)
(* The environment the program runs in: the sysfs events directory, the   *)
(* terminal, the perf_event_open calls the kernel refuses.                 *)
(***************************************************************************)
\* events directories: none, without engines, one engine, two engines listed
\* out of order, two engines of class 2, one whose config cannot be read
DirNone == [exists |-> FALSE, entries |-> <<>>]
DirEmpty == [exists |-> TRUE, entries |-> <<DirEnt("other", 0)>>]
Dir1 == [exists |-> TRUE,
         entries |-> <<DirEnt("other", 0), DirEnt("busy", PmuEngineConfig(0, 0, 0))>>]
Dir2 == [exists |-> TRUE,
         entries |-> <<DirEnt("busy", PmuEngineConfig(0, 1, 0)),
                       DirEnt("other", 0),
                       DirEnt("busy", PmuEngineConfig(0, 0, 0))>>]
DirVideo == [exists |-> TRUE,
             entries |-> <<DirEnt("busy", PmuEngineConfig(2, 0, 0)),
                           DirEnt("busy", PmuEngineConfig(2, 1, 0))>>]
DirBad == [exists |-> TRUE,
           entries |-> <<DirEnt("busy", PmuEngineConfig(0, 0, 0)),
                         DirEnt("nocfg", 0)>>]
DirLong == [exists |-> TRUE, entries |-> <<DirEnt("long", 0)>>]

\* what ioctl(0, TIOCGWINSZ) reports; ok = FALSE when it fails
Term(w, h) == [ok |-> TRUE, col |-> w, row |-> h]
TermFail == [ok |-> FALSE, col |-> 0, row |-> 0]

\* the counters pmu_init may try to open for a table of n engines
AllCounters(n) ==
    {Ctr(k, 0) : k \in {"irq", "freq_req", "freq_act", "rc6", "r_gpu", "r_pkg",
                        "imc_reads", "imc_writes"}}
    \cup {Ctr(k, i) : k \in {"busy", "wait", "sema"}, i \in 1..n}

ArgvUpTo(n) == UNION {[1..k -> Options] : k \in 0..n}

\* an environment in which everything is in order
EnvOk ==
    [tty |-> TRUE, stdin_tty |-> TRUE, fopen_ok |-> TRUE, card_found |-> TRUE,
     stdin_orig |-> [icanon |-> TRUE, vmin |-> 1, vtime |-> 0, nonblock |-> FALSE],
     sysfs |-> Dir2, refused |-> {}, discrete |-> FALSE, term |-> Term(80, 24),
     short |-> NULL]

(***************************************************************************)
(* State at process start.                                                 *)
(***************************************************************************)
InitGlobals ==
    /\ ret = 0
    /\ output_mode = "INTERACTIVE"
    /\ output_path = NULL
    /\ period_us = DEFAULT_PERIOD_MS * 1000
    /\ list_device = FALSE
    /\ stop_top = FALSE
    /\ class_view = FALSE
    /\ stdin_attr = env.stdin_orig
    /\ engines = NULL
    /\ classes = NULL
    /\ fds = {}
    /\ kernel = [time |-> 0, work |-> 0]
    /\ json_indent_level = 0
    /\ json_struct_members = 0
    /\ json_prev_struct_members = 0
    /\ stdout_level = 0
    /\ stdout_lines = STDOUT_HEADER_REPEAT
    /\ loop = [con_w |-> -1, con_h |-> -1, t |-> Frac(0, NSEC)]
    /\ out = <<>>
    /\ rows = <<>>
    /\ log = <<>>
    /\ ticks = 0
    /\ driven = <<>>
    /\ reads = <<>>
    /\ built = 0

\* main() is about to run; no function is applied on its own
InitProgram ==
    /\ InitGlobals
    /\ pc = "start"
    /\ arg = <<>>
    /\ res = <<>>

progvars == <<output_mode, output_path, period_us, list_device, stop_top,
              class_view, stdin_attr, engines, classes, fds, kernel,
              json_indent_level, json_struct_members, json_prev_struct_members,
              stdout_level, stdout_lines, loop, out, rows, log, ticks,
              driven, reads, built>>

(***************************************************************************)
(* main(), lines 1587-1660: options, effective mode, output file, signal   *)
(* handler, renderer selection.                                            *)
(***************************************************************************)
MainStart ==
    /\ pc = "start"
    /\ LET p == ParseOptions(argv)
           mode == Downgrade(p.output_mode, p.output_path, env.tty)
           fopen_fails == p.output_path # NULL /\ p.output_path # Ptr("-")
                          /\ ~env.fopen_ok
       IN  /\ output_mode' = IF p.exited THEN p.output_mode ELSE mode
           /\ output_path' = p.output_path
           /\ period_us' = p.period_us
           /\ list_device' = p.list_device
           /\ IF p.exited
              THEN /\ pc' = "done"
                   /\ ret' = p.code
                   /\ UNCHANGED <<class_view, stdin_attr>>
              ELSE IF fopen_fails
              THEN /\ pc' = "done"
                   /\ ret' = 1
                   /\ UNCHANGED <<class_view, stdin_attr>>
              ELSE IF mode = "INTERACTIVE"
              THEN IF env.stdin_tty
                   THEN /\ stdin_attr' = SetRaw(SetNonblock(stdin_attr))
                        /\ class_view' = TRUE
                        /\ pc' = "scan"
                        /\ UNCHANGED ret
                   ELSE \* tcgetattr() fails: assert(ret == 0)
                        /\ stdin_attr' = SetNonblock(stdin_attr)
                        /\ pc' = "abort"
                        /\ UNCHANGED <<class_view, ret>>
              ELSE /\ pc' = "scan"
                   /\ UNCHANGED <<class_view, stdin_attr, ret>>
    /\ UNCHANGED <<argv, env, stop_top, engines, classes, fds, kernel,
                   json_indent_level, json_struct_members,
                   json_prev_struct_members, stdout_level, stdout_lines,
                   loop, out, rows, log, ticks, driven, reads, built, arg,
                   res>>

(***************************************************************************)
(* main(), lines 1662-1695: device scan, -L listing, card selection.       *)
(***************************************************************************)
SelectCard ==
    /\ pc = "scan"
    /\ IF list_device THEN pc' = "done" /\ UNCHANGED ret
       ELSE IF ~env.card_found THEN pc' = "done" /\ ret' = EXIT_FAILURE
       ELSE pc' = "discover" /\ UNCHANGED ret
    /\ UNCHANGED <<argv, env, arg, res>>
    /\ UNCHANGED progvars

(***************************************************************************)
(* main(), lines 1697-1704: engines = discover_engines(pmu_device).        *)
(***************************************************************************)
Discover ==
    /\ pc = "discover"
    /\ \E dirfd \in {NewFd(fds)} :
       \E e \in {discover_engines(env.sysfs, env.discrete, dirfd)} :
           /\ engines' = e
           /\ fds' = IF env.sysfs.exists
                     THEN fds \cup {[fd |-> dirfd, leader |-> dirfd,
                                     ctr |-> Ctr("dir", 0)]}
                     ELSE fds
           /\ IF e = NULL THEN pc' = "done" /\ ret' = EXIT_FAILURE
              ELSE pc' = "pmu_init" /\ UNCHANGED ret
    /\ UNCHANGED <<argv, env, output_mode, output_path, period_us, list_device,
                   stop_top, class_view, stdin_attr, classes, kernel,
                   json_indent_level, json_struct_members,
                   json_prev_struct_members, stdout_level, stdout_lines,
                   loop, out, rows, log, ticks, driven, reads, built, arg,
                   res>>

(***************************************************************************)
(* main(), lines 1706-1714: ret = pmu_init(engines).                       *)
(***************************************************************************)
PmuInit ==
    /\ pc = "pmu_init"
    /\ \E r \in {pmu_init(Deref(engines), fds, env.refused)} :
           /\ engines' = Ptr(r.eng)
           /\ fds' = r.fds
           /\ IF r.ok THEN pc' = "prime" /\ ret' = EXIT_SUCCESS
              ELSE pc' = "done" /\ ret' = EXIT_FAILURE
    /\ UNCHANGED <<argv, env, output_mode, output_path, period_us, list_device,
                   stop_top, class_view, stdin_attr, classes, kernel,
                   json_indent_level, json_struct_members,
                   json_prev_struct_members, stdout_level, stdout_lines,
                   loop, out, rows, log, ticks, driven, reads, built, arg,
                   res>>

(***************************************************************************)
(* main(), line 1716: the priming pmu_sample(engines).                     *)
(***************************************************************************)
\* the short read the environment has in store for the pmu_sample call
\* about to be made, or NULL
FaultNow ==
    IF env.short # NULL
       /\ Deref(env.short).sample
             = 1 + Cardinality({i \in 1..Len(log) : log[i] = "sample"})
    THEN env.short ELSE NULL

\* a main() without the sample before the loop
Prime_NoSample ==
    /\ pc = "prime"
    /\ pc' = "loop_head"
    /\ UNCHANGED <<argv, env, ret, arg, res>>
    /\ UNCHANGED progvars

Prime ==
    /\ pc = "prime"
    /\ \E k \in {Advance(kernel, 1)} :
       \E r \in {SampleNow(Deref(engines), k, fds, FaultNow)} :
           /\ kernel' = k
           /\ engines' = Ptr(r.eng)
           /\ reads' = r.reads
           /\ pc' = IF r.ok THEN "loop_head" ELSE "abort"
    /\ log' = Append(log, "sample")
    /\ UNCHANGED <<argv, env, ret, output_mode, output_path, period_us,
                   list_device, stop_top, class_view, stdin_attr, classes, fds,
                   json_indent_level, json_struct_members,
                   json_prev_struct_members, stdout_level, stdout_lines,
                   loop, out, rows, ticks, driven, built, arg,
                   res>>

(***************************************************************************)
(* main(), lines 1719-1770: the main loop.                                 *)
(***************************************************************************)
\* usleep(period_us) and the poll timeout, in model time units
PeriodTicks(us) == (us * NSEC) \div 1000000

\* iterations explored: MaxTicks when nothing is out of the ordinary
LoopBudget ==
    IF [env EXCEPT !.tty = TRUE] = [EnvOk EXCEPT !.stdin_orig = env.stdin_orig]
    THEN MaxTicks ELSE ShortTicks

\* while (!stop_top) { ...; update terminal size
LoopHead ==
    /\ pc = "loop_head"
    /\ IF stop_top
       THEN /\ pc' = "done"
            /\ UNCHANGED <<ticks, loop>>
       ELSE /\ ticks < LoopBudget
            /\ ticks' = ticks + 1
            /\ pc' = IF output_mode = "PROMETHEUS" THEN "sleep_first" ELSE "sample"
            /\ loop' = IF output_mode # "INTERACTIVE"
                       THEN [loop EXCEPT !.con_w = INT_MAX, !.con_h = INT_MAX]
                       ELSE IF ~env.term.ok THEN loop
                       ELSE IF env.term.col = 0 /\ env.term.row = 0
                       THEN [loop EXCEPT !.con_w = 80, !.con_h = 24]
                       ELSE [loop EXCEPT !.con_w = env.term.col,
                                         !.con_h = env.term.row]
    /\ UNCHANGED <<argv, env, ret, output_mode, output_path, period_us,
                   list_device, stop_top, class_view, stdin_attr, engines,
                   classes, fds, kernel, json_indent_level, json_struct_members,
                   json_prev_struct_members, stdout_level, stdout_lines,
                   out, rows, log, driven, reads, built, arg,
                   res>>

\* if (output_mode == PROMETHEUS) usleep(period_us);
SleepFirst ==
    /\ pc = "sleep_first"
    /\ kernel' = Advance(kernel, PeriodTicks(period_us))
    /\ log' = Append(log, "sleep")
    /\ pc' = "sample"
    /\ UNCHANGED <<argv, env, ret, output_mode, output_path, period_us,
                   list_device, stop_top, class_view, stdin_attr, engines,
                   classes, fds, json_indent_level, json_struct_members,
                   json_prev_struct_members, stdout_level, stdout_lines,
                   loop, out, rows, ticks, driven, reads, built, arg,
                   res>>

\* pmu_sample(engines); t = (double)(ts.cur - ts.prev) / 1e9;
Sample ==
    /\ pc = "sample"
    /\ \E k \in {Advance(kernel, 1)} :
       \E r \in {SampleNow(Deref(engines), k, fds, FaultNow)} :
           /\ kernel' = k
           /\ engines' = Ptr(r.eng)
           /\ reads' = r.reads
           /\ loop' = [loop EXCEPT !.t = Frac(PairDelta(r.eng.ts), NSEC)]
           /\ pc' = IF r.ok THEN "check1" ELSE "abort"
    /\ log' = Append(log, "sample")
    /\ UNCHANGED <<argv, env, ret, output_mode, output_path, period_us,
                   list_device, stop_top, class_view, stdin_attr, classes, fds,
                   json_indent_level, json_struct_members,
                   json_prev_struct_members, stdout_level, stdout_lines,
                   out, rows, ticks, driven, built, arg,
                   res>>

\* a first check point that sees the flag and goes on to render all the same
Check1_NoBreak ==
    /\ pc = "check1"
    /\ pc' = "render"
    /\ UNCHANGED <<argv, env, ret, arg, res>>
    /\ UNCHANGED progvars

\* the first if (stop_top) break;
Check1 ==
    /\ pc = "check1"
    /\ pc' = IF stop_top THEN "done" ELSE "render"
    /\ UNCHANGED <<argv, env, ret, arg, res>>
    /\ UNCHANGED progvars

\* a render loop that prints nothing once the flag is set
Render_CutShort ==
    /\ pc = "render"
    /\ \E R0 \in {[out |-> <<>>, rows |-> rows, ok |-> TRUE, ret |-> 0,
                     buf |-> <<>>, lines |-> 0, consumed |-> FALSE,
                     driven |-> <<>>,
                     built |-> built,
                     classes |-> classes,
                     json_indent_level |-> json_indent_level,
                     json_struct_members |-> json_struct_members,
                     json_prev_struct_members |-> json_prev_struct_members,
                     stdout_level |-> stdout_level,
                     stdout_lines |-> stdout_lines]} :
       \E R \in {IF stop_top THEN R0
                  ELSE RenderSample(R0, Deref(engines), class_view, loop.t,
                                    loop.con_h, output_mode)} :
           /\ out' = R.out
           /\ driven' = R.driven
           /\ built' = R.built
           /\ rows' = R.rows
           /\ classes' = R.classes
           /\ json_indent_level' = R.json_indent_level
           /\ json_struct_members' = R.json_struct_members
           /\ json_prev_struct_members' = R.json_prev_struct_members
           /\ stdout_level' = R.stdout_level
           /\ stdout_lines' = R.stdout_lines
           /\ pc' = IF R.ok THEN "check2" ELSE "abort"
    /\ log' = Append(log, "render")
    /\ UNCHANGED <<argv, env, ret, output_mode, output_path, period_us,
                   list_device, stop_top, class_view, stdin_attr, engines, fds,
                   kernel, loop, ticks, reads, arg,
                   res>>

\* while (!consumed) { print_header(); print_imc(); print_engines(); }
Render ==
    /\ pc = "render"
    /\ \E R0 \in {[out |-> <<>>, rows |-> rows, ok |-> TRUE, ret |-> 0,
                     buf |-> <<>>, lines |-> 0, consumed |-> FALSE,
                     driven |-> <<>>,
                     built |-> built,
                     classes |-> classes,
                     json_indent_level |-> json_indent_level,
                     json_struct_members |-> json_struct_members,
                     json_prev_struct_members |-> json_prev_struct_members,
                     stdout_level |-> stdout_level,
                     stdout_lines |-> stdout_lines]} :
       \E R \in {RenderSample(R0, Deref(engines), class_view, loop.t,
                              loop.con_h, output_mode)} :
           /\ out' = R.out
           /\ driven' = R.driven
           /\ built' = R.built
           /\ rows' = R.rows
           /\ classes' = R.classes
           /\ json_indent_level' = R.json_indent_level
           /\ json_struct_members' = R.json_struct_members
           /\ json_prev_struct_members' = R.json_prev_struct_members
           /\ stdout_level' = R.stdout_level
           /\ stdout_lines' = R.stdout_lines
           /\ pc' = IF R.ok THEN "check2" ELSE "abort"
    /\ log' = Append(log, "render")
    /\ UNCHANGED <<argv, env, ret, output_mode, output_path, period_us,
                   list_device, stop_top, class_view, stdin_attr, engines, fds,
                   kernel, loop, ticks, reads, arg,
                   res>>

\* a second check point without the break of Prometheus mode
Check2_NoOneShot ==
    /\ pc = "check2"
    /\ pc' = IF stop_top THEN "done" ELSE "wait"
    /\ UNCHANGED <<argv, env, ret, arg, res>>
    /\ UNCHANGED progvars

\* the second if (stop_top) break; and the single shot of Prometheus mode
Check2 ==
    /\ pc = "check2"
    /\ pc' = IF stop_top \/ output_mode = "PROMETHEUS" THEN "done" ELSE "wait"
    /\ UNCHANGED <<argv, env, ret, arg, res>>
    /\ UNCHANGED progvars

\* usleep(period_us) of the non-interactive modes
Sleep ==
    /\ pc = "wait"
    /\ output_mode # "INTERACTIVE"
    /\ kernel' = Advance(kernel, PeriodTicks(period_us))
    /\ log' = Append(log, "sleep")
    /\ pc' = "loop_head"
    /\ UNCHANGED <<argv, env, ret, output_mode, output_path, period_us,
                   list_device, stop_top, class_view, stdin_attr, engines,
                   classes, fds, json_indent_level, json_struct_members,
                   json_prev_struct_members, stdout_level, stdout_lines,
                   loop, out, rows, ticks, driven, reads, built, arg,
                   res>>

(***************************************************************************)
(* process_stdin(): poll, then read until read() has no more.              *)
(***************************************************************************)
Keys == {"q", "1", "x"}
KeySeqs(n) == UNION {[1..k -> Keys] : k \in 1..n}

RECURSIVE ReadKeys_StopAtQ(_, _, _)
\* a read loop that is left at the first 'q'
ReadKeys_StopAtQ(S, keys, i) ==
    IF i > Len(keys) THEN S
    ELSE IF keys[i] = "q" THEN [S EXCEPT !.stop_top = TRUE]
    ELSE ReadKeys_StopAtQ(IF keys[i] = "1" THEN [S EXCEPT !.class_view = ~@]
                          ELSE S,
                          keys, i + 1)

RECURSIVE ReadKeys(_, _, _)
\* the for (;;) loop: S = [stop_top, class_view]
ReadKeys(S, keys, i) ==
    IF i > Len(keys) THEN S
    ELSE ReadKeys(CASE keys[i] = "q" -> [S EXCEPT !.stop_top = TRUE]
                    [] keys[i] = "1" -> [S EXCEPT !.class_view = ~@]
                    [] OTHER -> S,
                  keys, i + 1)

\* process_stdin() when poll returns ret with keys pending
process_stdin(S, ret_poll, keys) ==
    IF ret_poll <= 0
    THEN IF ret_poll < 0 THEN [S EXCEPT !.stop_top = TRUE] ELSE S
    ELSE ReadKeys(S, keys, 1)

\* what poll may return with keys waiting on stdin: an error, or 1; with
\* nothing waiting also 0 (timeout), and 1 when stdin is at its end
PollResults(keys) == {-1, 1} \cup (IF keys = <<>> THEN {0} ELSE {})

ProcessStdin ==
    /\ pc = "wait"
    /\ output_mode = "INTERACTIVE"
    /\ \E keys \in KeySeqs(MaxKeys) \cup {<<>>} :
       \E ret_poll \in PollResults(keys) :
          LET S == process_stdin([stop_top |-> stop_top,
                                  class_view |-> class_view], ret_poll, keys)
          IN  /\ stop_top' = S.stop_top
              /\ class_view' = S.class_view
    /\ kernel' = Advance(kernel, PeriodTicks(period_us))
    /\ log' = Append(log, "poll")
    /\ pc' = "loop_head"
    /\ UNCHANGED <<argv, env, ret, output_mode, output_path, period_us,
                   list_device, stdin_attr, engines, classes, fds,
                   json_indent_level, json_struct_members,
                   json_prev_struct_members, stdout_level, stdout_lines,
                   loop, out, rows, ticks, driven, reads, built, arg,
                   res>>

(***************************************************************************)
(* SIGINT.  sigint_handler is installed in the non-interactive modes only; *)
(* in interactive mode the signal ends the process.                        *)
(***************************************************************************)
Running == pc \notin {"start", "done", "abort", "killed"}

sigint_handler ==
    /\ Running
    /\ output_mode # "INTERACTIVE"
    /\ ~stop_top
    /\ stop_top' = TRUE
    /\ log' = Append(log, "sigint")
    /\ UNCHANGED <<argv, env, pc, ret, output_mode, output_path, period_us,
                   list_device, class_view, stdin_attr, engines, classes, fds,
                   kernel, json_indent_level, json_struct_members,
                   json_prev_struct_members, stdout_level, stdout_lines,
                   loop, out, rows, ticks, driven, reads, built, arg,
                   res>>

SigintDefault ==
    /\ Running
    /\ output_mode = "INTERACTIVE"
    /\ pc' = "killed"
    /\ UNCHANGED <<argv, env, ret, arg, res>>
    /\ UNCHANGED progvars

(***************************************************************************)
(* Option parsing on its own: every command line of up to MaxArgs options. *)
InitArgs ==
    /\ argv \in ArgvUpTo(MaxArgs)
    /\ \E t \in BOOLEAN, f \in BOOLEAN :
          env = [EnvOk EXCEPT !.tty = t, !.fopen_ok = f]
    /\ InitProgram

NextArgs == MainStart

SpecArgs == InitArgs /\ [][NextArgs]_vars

(***************************************************************************)
(* The program as a whole.                                                 *)
(***************************************************************************)
CmdLines ==
    {<<>>, <<Opt("l")>>, <<Opt("J")>>, <<Opt("p")>>, <<Opt("L")>>,
     <<OptO("-")>>, <<OptO("file")>>, <<Opt("p"), OptS(100)>>,
     <<Opt("h")>>, <<Opt("d"), Opt("J")>>}

\* refusals explored with the main loop: none, any single counter, a whole
\* group, and every counter of every engine
Refusals ==
    {{}} \cup {{c} : c \in AllCounters(2)}
    \cup {{Ctr("r_gpu", 0), Ctr("r_pkg", 0)},
          {Ctr("imc_reads", 0), Ctr("imc_writes", 0)},
          {Ctr("busy", 1), Ctr("busy", 2)},
          {Ctr(k, i) : k \in {"busy", "wait", "sema"}, i \in 1..2}}

\* environments: everything in order, or out of the ordinary in one respect
Envs ==
    {[EnvOk EXCEPT !.tty = t] : t \in BOOLEAN}
    \cup {[EnvOk EXCEPT !.stdin_orig = a] : a \in TermAttrs}
    \cup {[EnvOk EXCEPT !.refused = r] : r \in Refusals}
    \cup {[EnvOk EXCEPT !.sysfs = d] :
            d \in {DirNone, DirEmpty, Dir1, DirVideo, DirBad, DirLong}}
    \cup {[EnvOk EXCEPT !.term = z] : z \in {TermFail, Term(0, 0), Term(80, 3)}}
    \cup {[EnvOk EXCEPT !.stdin_tty = FALSE], [EnvOk EXCEPT !.fopen_ok = FALSE],
          [EnvOk EXCEPT !.card_found = FALSE], [EnvOk EXCEPT !.discrete = TRUE]}

Init ==
    /\ argv \in CmdLines
    /\ env \in Envs
    /\ InitProgram

Next ==
    \/ MainStart \/ SelectCard \/ Discover \/ PmuInit \/ Prime
    \/ LoopHead \/ SleepFirst \/ Sample \/ Check1 \/ Render \/ Check2
    \/ Sleep \/ ProcessStdin
    \/ sigint_handler \/ SigintDefault

Spec == Init /\ [][Next]_vars

(***************************************************************************)
(* The non-interactive modes with a program that keeps running: every step *)
(* of main() that is enabled is eventually taken (usleep returns, reads    *)
(* return); SIGINT may arrive at any point or never.                       *)
(***************************************************************************)
InitLive ==
    /\ argv \in {<<Opt("l")>>, <<Opt("J")>>, <<Opt("p")>>,
                 <<Opt("p"), OptS(100)>>, <<OptO("file")>>}
    /\ env \in {[EnvOk EXCEPT !.tty = t] : t \in BOOLEAN}
              \cup {[EnvOk EXCEPT !.refused = {c}] :
                       c \in {Ctr("rc6", 0), Ctr("r_gpu", 0), Ctr("busy", 1)}}
    /\ InitProgram

ProgramStep ==
    \/ MainStart \/ SelectCard \/ Discover \/ PmuInit \/ Prime
    \/ LoopHead \/ SleepFirst \/ Sample \/ Check1 \/ Render \/ Check2
    \/ Sleep

NextLive == ProgramStep \/ sigint_handler

SpecLive == InitLive /\ [][NextLive]_vars /\ WF_vars(ProgramStep)

(***************************************************************************)
(* Initialisation on its own: every pattern of refused opens, up to the    *)
(* priming sample.                                                         *)
(***************************************************************************)
InitInit ==
    /\ argv \in {<<>>, <<Opt("J")>>}
    /\ \E d \in {DirNone, DirEmpty, Dir1, DirBad, DirLong}, x \in BOOLEAN,
          r \in SUBSET AllCounters(1) :
          env = [EnvOk EXCEPT !.sysfs = d, !.discrete = x, !.refused = r]
    /\ InitProgram

NextInit == MainStart \/ SelectCard \/ Discover \/ PmuInit \/ Prime

SpecInit == InitInit /\ [][NextInit]_vars


(***************************************************************************)
(* pmu_calc() on its own: every pair of raw values, both divisors, every   *)
(* positive interval, scale 1 and scale 100.                               *)
(***************************************************************************)
U64Values == 0..(U64 - 1)
CalcInputs ==
    [p : [cur : U64Values, prev : U64Values], d : {1, NSEC},
     t : {Frac(n, NSEC) : n \in 1..(U64 - 1)}, s : {One, Percent}]

InitCalc ==
    /\ argv = <<>>
    /\ env = EnvOk
    /\ InitGlobals
    /\ pc = "pmu_calc"
    /\ arg \in {Ptr(a) : a \in CalcInputs}
    /\ res = <<>>

Calc ==
    /\ pc = "pmu_calc"
    /\ res = <<>>
    /\ res' = Ptr(pmu_calc(Deref(arg).p, Deref(arg).d, Deref(arg).t, Deref(arg).s))
    /\ UNCHANGED <<argv, env, pc, ret, arg>>
    /\ UNCHANGED progvars

NextCalc == Calc

SpecCalc == InitCalc /\ [][NextCalc]_vars

(***************************************************************************)
(* update_class_engines() on its own: engine tables of up to MaxEngines    *)
(* engines in sorted order, raw values from both ends of the uint64_t      *)
(* range.                                                                  *)
(***************************************************************************)
RawSamples == {0, 1, 2, U64 - 1}
RawPairs == [cur : RawSamples, prev : RawSamples]
Swap(v) == [cur |-> v.prev, prev |-> v.cur]

\* an engine of class c whose three counters opened; busy holds v, sema v
\* the other way round, wait the previous value twice
SampledEngine(c, i, v) ==
    [NewEngine(0) EXCEPT
        !.class = c, !.instance = i, !.num_counters = 3,
        !.busy = [NewCounter EXCEPT !.present = TRUE, !.val = v],
        !.sema = [NewCounter EXCEPT !.present = TRUE, !.val = Swap(v)],
        !.wait = [NewCounter EXCEPT !.present = TRUE,
                                    !.val = [cur |-> v.prev, prev |-> v.prev]]]

\* the class of each engine of a sorted table: non-decreasing
ClassPatterns(n) ==
    {f \in [1..n -> 0..1] : \A i \in 1..(n - 1) : f[i] <= f[i + 1]}
\* the instance of engine i: its place among the engines of its class
InstanceIn(f, i) == Cardinality({j \in 1..(i - 1) : f[j] = f[i]})

EngineTables(max) ==
    UNION {{[i \in 1..n |-> SampledEngine(f[i], InstanceIn(f, i), v[i])] :
              f \in ClassPatterns(n), v \in [1..n -> RawPairs]} :
           n \in 1..max}

InitClass ==
    /\ argv = <<>>
    /\ env = EnvOk
    /\ InitGlobals
    /\ pc = "update_class_engines"
    /\ arg \in {Ptr([num_engines |-> Len(tb), engine |-> tb]) :
                  tb \in EngineTables(MaxEngines)}
    /\ res = <<>>

\* the first call: the static classes pointer is still NULL
UpdateClass ==
    /\ pc = "update_class_engines"
    /\ res = <<>>
    /\ res' = Ptr(update_class_engines([classes |-> NULL, ok |-> TRUE, built |-> 0],
                                       Deref(arg)))
    /\ UNCHANGED <<argv, env, pc, ret, arg>>
    /\ UNCHANGED progvars

NextClass == UpdateClass

SpecClass == InitClass /\ [][NextClass]_vars

(***************************************************************************)
(* prometheus_add_member() on its own: every item of every group of the    *)
(* metric table, engines of every class, counters present and absent.     *)
(***************************************************************************)
\* instances with one, two and three digits
Instances == {0, 1, 10, 255}
\* engine classes: the four the source names and one it does not
Classes == {I915_ENGINE_CLASS_RENDER, I915_ENGINE_CLASS_COPY,
            I915_ENGINE_CLASS_VIDEO, I915_ENGINE_CLASS_VIDEO_ENHANCE,
            I915_ENGINE_CLASS_VIDEO_ENHANCE + 1}

\* the struct engines after pmu_init with the opens in refused refused
OpenedEngines(refused) ==
    pmu_init(Deref(discover_engines(Dir1, FALSE, 3)), {}, refused).eng

\* an engine whose busy and wait counters opened, sema as b says
PromEngine(c, i, b) ==
    [SampledEngine(c, i, [cur |-> 1, prev |-> 0]) EXCEPT !.sema.present = b]

PromGroups ==
    UNION {{freq_group(e, One), irq_group(e, One), rc6_group(e, One),
            power_group(e, One), imc_group(e, One)} :
           e \in {OpenedEngines({}),
                  OpenedEngines(AllCounters(1) \ {Ctr("irq", 0)}),
                  OpenedEngines({Ctr("freq_req", 0), Ctr("r_pkg", 0),
                                 Ctr("imc_reads", 0)})}}
    \cup {engine_group(PromEngine(c, i, b), One) :
            c \in Classes, i \in Instances, b \in BOOLEAN}

InitProm ==
    /\ argv = <<>>
    /\ env = EnvOk
    /\ InitGlobals
    /\ pc = "prometheus_add_member"
    /\ arg \in {Ptr([parent |-> g, idx |-> i]) :
                  g \in PromGroups, i \in 1..4} 
    /\ Deref(arg).idx <= Len(Deref(arg).parent.items)
    /\ res = <<>>

PromAddMember ==
    /\ pc = "prometheus_add_member"
    /\ res = <<>>
    /\ res' = Ptr(prometheus_add_member(
                     [out |-> <<>>, ok |-> TRUE, ret |-> 0],
                     Deref(arg).parent,
                     Deref(arg).parent.items[Deref(arg).idx], 0))
    /\ UNCHANGED <<argv, env, pc, ret, arg>>
    /\ UNCHANGED progvars

NextProm == PromAddMember

SpecProm == InitProm /\ [][NextProm]_vars

(***************************************************************************)
(* process_stdin() on its own: every value of the two flags, up to MaxKeys *)
(* characters waiting, every result of poll.                               *)
(***************************************************************************)
InitStdin ==
    /\ argv = <<>>
    /\ env = EnvOk
    /\ InitGlobals
    /\ pc = "process_stdin"
    /\ \E st \in BOOLEAN, cv \in BOOLEAN,
          keys \in KeySeqs(MaxKeys) \cup {<<>>} :
       \E ret_poll \in PollResults(keys) :
          arg = Ptr([S |-> [stop_top |-> st, class_view |-> cv],
                     ret_poll |-> ret_poll, keys |-> keys])
    /\ res = <<>>

StdinCall ==
    /\ pc = "process_stdin"
    /\ res = <<>>
    /\ res' = Ptr(process_stdin(Deref(arg).S, Deref(arg).ret_poll,
                                Deref(arg).keys))
    /\ UNCHANGED <<argv, env, pc, ret, arg>>
    /\ UNCHANGED progvars

NextStdin == StdinCall

SpecStdin == InitStdin /\ [][NextStdin]_vars

(***************************************************************************)
(* The non-interactive program against a kernel that returns one grouped   *)
(* read short: fewer words than asked for, or nothing.                     *)
(***************************************************************************)
\* the sample calls a run can be disturbed at
FaultySamples == 1..3
ShortReads ==
    [sample : FaultySamples, group : {"fd", "rapl_fd", "imc_fd"},
     words : {0, 2}]

InitShort ==
    /\ argv \in {<<Opt("J")>>, <<Opt("l")>>, <<Opt("p")>>}
    /\ \E f \in ShortReads,
          r \in {{}, {Ctr("r_gpu", 0), Ctr("r_pkg", 0)},
                 {Ctr("imc_reads", 0)}} :
          env = [EnvOk EXCEPT !.short = Ptr(f), !.refused = r]
    /\ InitProgram

NextShort == ProgramStep

SpecShort == InitShort /\ [][NextShort]_vars

(***************************************************************************)
(* Discovery and the sort on their own: every enumeration order of a       *)
(* directory, and every order of a table with several classes.             *)
(***************************************************************************)
\* the sequences of up to n pairwise different elements of S
DistinctSeqs(S, n) ==
    UNION {{q \in [1..k -> S] : \A i, j \in 1..k : i # j => q[i] # q[j]} :
           k \in 0..n}
\* entries readdir may return: busy files of four instances, one other file
SortEntries ==
    {DirEnt("busy", PmuEngineConfig(0, i, 0)) : i \in {0, 1, 2, 10}}
    \cup {DirEnt("other", 0)}
\* engines whose (class, instance) pairs differ
SortEngineSet ==
    {[NewEngine(0) EXCEPT !.class = c, !.instance = i] :
        c \in {0, 1, 2}, i \in {0, 1}}

InitSort ==
    /\ argv = <<>>
    /\ env = EnvOk
    /\ InitGlobals
    /\ \/ /\ pc = "discover_engines"
          /\ arg \in {Ptr([exists |-> TRUE, entries |-> q]) :
                        q \in DistinctSeqs(SortEntries, MaxEntries)}
       \/ /\ pc = "qsort"
          /\ arg \in {Ptr(q) : q \in DistinctSeqs(SortEngineSet, MaxEntries)}
    /\ res = <<>>

DiscoverCall ==
    /\ pc = "discover_engines"
    /\ res = <<>>
    /\ res' = Ptr(discover_engines(Deref(arg), FALSE, 3))
    /\ UNCHANGED <<argv, env, pc, ret, arg>>
    /\ UNCHANGED progvars

QsortCall ==
    /\ pc = "qsort"
    /\ res = <<>>
    /\ res' = Ptr(SortEngines(Deref(arg)))
    /\ UNCHANGED <<argv, env, pc, ret, arg>>
    /\ UNCHANGED progvars

NextSort == DiscoverCall \/ QsortCall

SpecSort == InitSort /\ [][NextSort]_vars

(***************************************************************************)
(* The decoding of an engine config on its own: every class, instance and  *)
(* two sample selectors.                                                   *)
(***************************************************************************)
\* the values of an eight-bit field
Byte == 0..255

InitConfig ==
    /\ argv = <<>>
    /\ env = EnvOk
    /\ InitGlobals
    /\ pc = "discover_engines:config"
    /\ arg \in {Ptr([class |-> c, instance |-> i, sample |-> sm,
                      config |-> PmuEngineConfig(c, i, sm)]) :
                 c \in Byte, i \in Byte, sm \in {0, 255}}
    /\ res = <<>>

\* the struct engine discovery fills in for the config
DecodeConfig ==
    /\ pc = "discover_engines:config"
    /\ res = <<>>
    /\ res' = Ptr(NewEngine(Deref(arg).config))
    /\ UNCHANGED <<argv, env, pc, ret, arg>>
    /\ UNCHANGED progvars

NextConfig == DecodeConfig

SpecConfig == InitConfig /\ [][NextConfig]_vars

(***************************************************************************)
(* print_percentage_bar() on its own, called as print_engine calls it.     *)
(* A cell is <<"|", 0>>, <<" ", 0>>, <<"glyph", i>> for bars[i], or        *)
(* <<"?", i>> for whatever a read of bars[i] outside the table prints.     *)
(***************************************************************************)
\* (int) of the quotient a / b of a double, b > 0: towards zero; the same
\* for the division of two ints
TruncDiv(a, b) == IF a >= 0 THEN a \div b ELSE -((-a) \div b)
\* n copies of cell
Repeat(cell, n) == [i \in 1..Max(n, 0) |-> cell]
\* static const char *bars[]: the indices of the nine glyphs
BarGlyphs == 0..8

\* len of print_engine: "    %s%%    %s%%" of two 3-wide buffers, then
\* "%16s %s%% " of a name of at most 16 characters and a 6-wide buffer
RowTextLen == (4 + 3 + 1 + 4 + 3 + 1) + (16 + 1 + 6 + 2)
\* max_w - len with unsigned int max_w = con_w - 1, passed as int max_len:
\* the difference modulo 2^32 taken as an int is the difference itself
BarMaxLen(con_w) == (con_w - 1) - RowTextLen

\* the cells print_percentage_bar(percent, max_len) prints; oob says a
\* read of bars[] outside the table was made
print_percentage_bar(percent, max_len) ==
    LET bar_len == TruncDiv(percent.n * (8 * (max_len - 2)), percent.d * 100)
        full == IF bar_len >= 8 THEN bar_len \div 8 ELSE 0
        i == IF bar_len >= 8 THEN bar_len % 8 ELSE bar_len
        spaces == max_len - 2 - TruncDiv(bar_len + 7, 8)
    IN  [cells |-> <<<<"|", 0>>>> \o Repeat(<<"glyph", 8>>, full)
                   \o (IF i = 0 THEN <<>>
                       ELSE IF i \in BarGlyphs THEN <<<<"glyph", i>>>>
                       ELSE <<<<"?", i>>>>)
                   \o Repeat(<<" ", 0>>, spaces) \o <<<<"|", 0>>>>,
         oob |-> i \notin BarGlyphs]

\* busy percentages from 0 to 100, in quarters
BarPercents == {Frac(n, 4) : n \in {0, 1, 50, 199, 200, 399, 400}}
\* terminal widths: none obtained (-1), narrow, usual, wide
BarWidths == (-1..60) \cup {80, 132, 200}

InitBar ==
    /\ argv = <<>>
    /\ env = EnvOk
    /\ InitGlobals
    /\ pc = "print_percentage_bar"
    /\ arg \in {Ptr([percent |-> v, con_w |-> w]) :
                 v \in BarPercents, w \in BarWidths}
    /\ res = <<>>

\* the call of print_engine; a read outside bars[] prints something or
\* ends the process
PrintBar ==
    /\ pc = "print_percentage_bar"
    /\ res = <<>>
    /\ \E r \in {print_percentage_bar(Deref(arg).percent,
                                       BarMaxLen(Deref(arg).con_w))} :
       \E crashed \in IF r.oob THEN BOOLEAN ELSE {FALSE} :
           res' = Ptr([cells |-> r.cells, oob |-> r.oob, crashed |-> crashed])
    /\ UNCHANGED <<argv, env, pc, ret, arg>>
    /\ UNCHANGED progvars

NextBar == PrintBar

SpecBar == InitBar /\ [][NextBar]_vars

(***************************************************************************)
(* Properties of option parsing (SpecArgs).                                *)
(***************************************************************************)
HasOpt(args, o) == \E i \in 1..Len(args) : args[i].opt = o
ModeFlagsOf(args) == SelectSeq(args, LAMBDA x : x.opt \in ModeFlags)
ModeOfFlag(f) ==
    CASE f = "J" -> "JSON" [] f = "l" -> "STDOUT" [] f = "p" -> "PROMETHEUS"
\* the option loop ran to its end: no -h and no invalid option
ParsedAll == pc # "start" /\ ~HasOpt(argv, "h") /\ ~HasOpt(argv, "?")

\* C10: the effective output mode is INTERACTIVE exactly when no mode flag
\* and no -o was given and stdout is a TTY; without a mode flag, -o or a
\* stdout that is no TTY gives plain-text column mode; with mode flags the
\* last one decides, whatever -o and the TTY state are.
C10_EffectiveMode ==
    ParsedAll =>
        LET fl == ModeFlagsOf(argv)
        IN  /\ output_mode = "INTERACTIVE"
                 <=> (fl = <<>> /\ ~HasOpt(argv, "o") /\ env.tty)
            /\ (fl = <<>> /\ (HasOpt(argv, "o") \/ ~env.tty))
                 => output_mode = "STDOUT"
            /\ fl # <<>> => output_mode = ModeOfFlag(fl[Len(fl)].opt)

\* -o on a TTY without a mode flag: downgraded to plain-text column mode
C10_Witness ==
    /\ ParsedAll
    /\ ModeFlagsOf(argv) = <<>>
    /\ HasOpt(argv, "o")
    /\ env.tty
    /\ output_mode = "STDOUT"

(***************************************************************************)
(* Properties of initialisation (SpecInit).                                *)
(***************************************************************************)
\* pmu_init has returned
InitDone == engines # NULL /\ pc # "pmu_init"
IrqRefused == Ctr("irq", 0) \in env.refused
\* the counters pmu_init tries to open: RAPL only on an integrated GPU
Attempted(eng) ==
    {c \in AllCounters(eng.num_engines) :
        ~(eng.discrete /\ c[1] \in {"r_gpu", "r_pkg"})}

\* C6: initialisation fails, the process exiting non-zero without a sample,
\* exactly when the open of the IRQ counter is refused; any other refused
\* open leaves it successful with just the refused counters absent.
C6_InitFailsIffIrqRefused ==
    InitDone =>
        /\ (pc = "done" /\ ret # 0 /\ log = <<>>) <=> IrqRefused
        /\ IrqRefused => pc = "done"
        /\ ~IrqRefused =>
              /\ pc \in {"prime", "loop_head"}
              /\ ret = EXIT_SUCCESS
              /\ \A c \in AllCounters(Deref(engines).num_engines) :
                    GetCtr(Deref(engines), c).present
                       <=> (c \in Attempted(Deref(engines)) /\ c \notin env.refused)

\* every open but the IRQ one refused, and the priming sample taken
C6_Witness ==
    /\ InitDone
    /\ pc = "loop_head"
    /\ env.refused = AllCounters(1) \ {Ctr("irq", 0)}
    /\ Deref(engines).irq.present
    /\ ~Deref(engines).rc6.present
    /\ log = <<"sample">>

(***************************************************************************)
(* Properties of the whole program (Spec).                                 *)
(***************************************************************************)
\* the events directory holds no "<stem>-busy" entry
NoBusyEntry(dir) ==
    dir.exists /\ \A i \in 1..Len(dir.entries) : dir.entries[i].kind # "busy"

\* discover_engines has opened the events directory
DiscoveryRan == \E f \in fds : f.ctr = Ctr("dir", 0)

\* C7: when discovery finds no engine the program exits non-zero and never
\* opens a counter, samples or renders.
C7_NoEngineIsFatal ==
    (NoBusyEntry(env.sysfs) /\ DiscoveryRan) =>
        /\ \A f \in fds : f.ctr = Ctr("dir", 0)
        /\ log = <<>>
        /\ pc = "done" => ret # 0

\* C9: in interactive mode the attributes of stdin are back to what they
\* were at start whenever the program has exited.
C9_TerminalRestored ==
    pc = "done" => stdin_attr = env.stdin_orig


(***************************************************************************)
(* Properties of the main loop in the non-interactive modes (SpecLive).    *)
(***************************************************************************)
InLoop ==
    pc \in {"loop_head", "sleep_first", "sample", "check1", "render",
            "check2", "wait"}
IsPrefix(a, b) == Len(a) <= Len(b) /\ \A i \in 1..Len(a) : a[i] = b[i]

\* what a Prometheus run does: the priming sample, then sleep, sample, render
PromLog == <<"sample", "sleep", "sample", "render">>
PresentCounters(eng) ==
    {c \in AllCounters(eng.num_engines) : GetCtr(eng, c).present}
\* HELP, TYPE and value line for every present counter, and nothing else
CompleteBlock(toks, eng) ==
    /\ Len(toks) = 3 * Cardinality(PresentCounters(eng))
    /\ \A i \in 1..Len(toks) :
          toks[i].k = CASE i % 3 = 1 -> "help" [] i % 3 = 2 -> "type"
                        [] OTHER -> "metric"

PrometheusOneShot ==
    (output_mode = "PROMETHEUS" /\ ~stop_top) =>
        /\ ticks <= 1
        /\ IsPrefix(log, PromLog)
        /\ (pc = "done" /\ ticks = 1) =>
              /\ log = PromLog
              /\ ret = 0
              /\ CompleteBlock(out, Deref(engines))

\* C1: in Prometheus mode without a signal the loop sleeps one period, then
\* samples, renders one complete exposition block and is left with no
\* further sleep or sample; the process exits with code 0.
C1_PrometheusOneShot ==
    /\ []PrometheusOneShot
    /\ (output_mode = "PROMETHEUS" /\ InLoop) ~> (pc = "done" /\ ret = 0)

\* a Prometheus run that ended undisturbed after its one block
C1_Witness ==
    /\ output_mode = "PROMETHEUS"
    /\ ~stop_top
    /\ pc = "done"
    /\ log = PromLog
    /\ \E i \in 1..Len(out) : out[i].k = "metric"

\* the points where main() reads the flag
CheckPoints == {"loop_head", "check1", "check2"}
RECURSIVE CountFrom(_, _, _)
\* how many of log[i..] are what
CountFrom(l, i, what) ==
    IF i > Len(l) THEN 0
    ELSE (IF l[i] = what THEN 1 ELSE 0) + CountFrom(l, i + 1, what)
\* pmu_sample calls since the handler ran
SamplesAfterSigint ==
    IF \E i \in 1..Len(log) : log[i] = "sigint"
    THEN CountFrom(log, CHOOSE i \in 1..Len(log) : log[i] = "sigint", "sample")
    ELSE 0

\* C8: in the non-interactive modes the flag SIGINT sets is never cleared;
\* a check point that sees it leaves the loop, after which nothing runs, so
\* no render or sleep follows; at most one pmu_sample is issued after the
\* signal; the loop is eventually left and the exit code is 0.
C8_SigintStops ==
    /\ [][stop_top => stop_top']_vars
    /\ [][(pc \in CheckPoints /\ stop_top) => pc' = "done"]_vars
    /\ [][pc # "done"]_vars
    /\ [](SamplesAfterSigint <= 1)
    /\ [][(InLoop /\ pc' = "done") => ret' = 0]_vars
    /\ (stop_top /\ InLoop) ~> (pc = "done" /\ ret = 0)

\* SIGINT before the sample step: one more sample, no render, exit code 0
C8_Witness ==
    /\ stop_top
    /\ pc = "done"
    /\ ret = 0
    /\ SamplesAfterSigint = 1
    /\ log[Len(log)] = "sample"

(***************************************************************************)
(* Properties of what is rendered (Spec).                                  *)
(***************************************************************************)
\* tokens that show a counter: JSON member, column, metric, screen field
CounterTokens ==
    {"member", "h2", "data", "help", "type", "metric", "field", "dashes", "bar"}
\* group and item name of every counter item of the groups
ItemsOf(groups) ==
    UNION {{[g |-> groups[i].name, i |-> groups[i].items[j].name,
             pmu |-> groups[i].items[j].pmu] :
               j \in 1..Len(groups[i].items)} : i \in 1..Len(groups)}
\* the counter items of every group that is rendered
CounterItems(eng) ==
    {x \in ItemsOf(<<freq_group(eng, One), irq_group(eng, One),
                     rc6_group(eng, One), power_group(eng, One),
                     imc_group(eng, One)>>
                   \o [i \in 1..Len(eng.engine) |->
                          engine_group(eng.engine[i], One)]) :
        x.pmu # NULL}
AbsentItems(eng) ==
    {<<x.g, x.i>> : x \in {y \in CounterItems(eng) : ~Deref(y.pmu).present}}

\* C3: in every output mode a counter that is absent contributes nothing
\* to a rendered sample, also when other counters of its group are present.
C3_AbsentContributesNothing ==
    engines # NULL =>
        \A i \in 1..Len(out) :
            out[i].k \in CounterTokens
               => <<out[i].g, out[i].i>> \notin AbsentItems(Deref(engines))

\* the lines of kind h1 among the rows
HeaderRows == {i \in 1..Len(rows) : rows[i] = "h1"}
\* the rows begin with the header pair, a header pair is always complete,
\* and n data rows lie between one pair and the next
RowsRepeatEvery(n) ==
    /\ rows # <<>> => rows[1] = "h1"
    /\ \A i \in HeaderRows : i + 1 <= Len(rows) => rows[i + 1] = "h2"
    /\ \A i \in 1..Len(rows) : rows[i] = "h2" => i > 1 /\ rows[i - 1] = "h1"
    /\ \A i \in HeaderRows :
          IF \E j \in HeaderRows : j > i
          THEN (CHOOSE j \in HeaderRows :
                   j > i /\ \A k \in HeaderRows : k > i => k >= j) = i + 2 + n
          ELSE Len(rows) <= i + 1 + n

\* C4 as stated: 20 data rows between one header pair and the next.
C4_TwentyDataRows == RowsRepeatEvery(STDOUT_HEADER_REPEAT)

\* C4: plain-text output begins with the two header rows, and they are
\* repeated every 20 lines counting themselves: 18 data rows, one per tick,
\* lie between one header pair and the next.
C4_EighteenDataRows ==
    /\ RowsRepeatEvery(STDOUT_HEADER_REPEAT - 2)
    /\ (output_mode = "STDOUT" /\ pc = "check2")
          => rows[Len(rows)] = "data"
               /\ Cardinality({i \in 1..Len(rows) : rows[i] = "data"}) = ticks

\* the second header pair has been printed, 18 data rows after the first
C4_Witness ==
    /\ output_mode = "STDOUT"
    /\ Len(rows) > STDOUT_HEADER_REPEAT
    /\ rows[STDOUT_HEADER_REPEAT + 1] = "h1"
    /\ Cardinality(HeaderRows) = 2


(***************************************************************************)
(* Properties of pmu_calc (SpecCalc).                                      *)
(***************************************************************************)
\* C2: for scale 100 and a positive interval t the value pmu_calc computes
\* from any pair of raw values lies in [0, 100]; it is exactly 100 whenever
\* ((cur - prev) / d) / t * 100 exceeds 100, and that quotient otherwise.
C2_PercentClamped ==
    (res # <<>> /\ Deref(arg).s = Percent) =>
        LET a == Deref(arg)
            v == Deref(res)
            delta == (a.p.cur + U64 - a.p.prev) % U64
            num == delta * a.t.d * 100
            den == a.d * a.t.n
        IN  /\ v.d > 0
            /\ 0 <= v.n
            /\ v.n <= 100 * v.d
            /\ num > 100 * den => v = Frac(100, 1)
            /\ num <= 100 * den => v.n * den = num * v.d

\* the counter advanced by more than the interval: 100 is reported
C2_Witness ==
    /\ res # <<>>
    /\ Deref(arg).s = Percent
    /\ Deref(arg).d = NSEC
    /\ Deref(arg).t = Frac(NSEC, NSEC)
    /\ PairDelta(Deref(arg).p) = NSEC + 1
    /\ Deref(res) = Frac(100, 1)

(***************************************************************************)
(* Properties of the class aggregation (SpecClass).                        *)
(***************************************************************************)
CounterKinds == {"busy", "sema", "wait"}
\* the engines of class c in the table
ClassMembers(table, c) == {i \in 1..Len(table) : table[i].class = c}

RECURSIVE SumField(_, _, _, _)
\* the sum over the engines I of the field fld of their counter kind
SumField(table, I, kind, fld) ==
    IF I = {} THEN 0
    ELSE LET i == CHOOSE i \in I : TRUE
         IN  table[i][kind].val[fld] + SumField(table, I \ {i}, kind, fld)

RECURSIVE SumDelta(_, _, _)
\* the sum over the engines I of cur - prev in uint64_t arithmetic
SumDelta(table, I, kind) ==
    IF I = {} THEN 0
    ELSE LET i == CHOOSE i \in I : TRUE
         IN  PairDelta(table[i][kind].val) + SumDelta(table, I \ {i}, kind)

\* the class engines update_class_engines returned
Aggregated == Deref(Deref(res).classes).engine

\* C5 as stated, with the division read as integer division: the delta of
\* the aggregated pair is the sum of the engines' deltas divided by n.
C5_DeltaOfMeanIsMeanOfDeltas ==
    res # <<>> =>
        \A k \in 1..Len(Aggregated) : \A kind \in CounterKinds :
            LET I == ClassMembers(Deref(arg).engine, Aggregated[k].class)
            IN  PairDelta(Aggregated[k][kind].val)
                   = (SumDelta(Deref(arg).engine, I, kind) % U64)
                        \div Cardinality(I)

\* C5: after update_class_engines there is one class engine per class that
\* has engines; its cur is the uint64_t sum of the engines' cur divided by
\* n, rounded down, and so is its prev, for busy, sema and wait alike; when
\* neither sum wraps and no engine counter ran backwards, n times the
\* aggregated delta differs from the sum of the engines' deltas by less
\* than n.
C5_ClassMean ==
    res # <<>> =>
        /\ {Aggregated[k].class : k \in 1..Len(Aggregated)}
              = {Deref(arg).engine[i].class : i \in 1..Len(Deref(arg).engine)}
        /\ \A k \in 1..Len(Aggregated) : \A kind \in CounterKinds :
              LET table == Deref(arg).engine
                  I == ClassMembers(table, Aggregated[k].class)
                  n == Cardinality(I)
                  sc == SumField(table, I, kind, "cur")
                  sp == SumField(table, I, kind, "prev")
                  agg == Aggregated[k][kind].val
              IN  /\ agg.cur = (sc % U64) \div n
                  /\ agg.prev = (sp % U64) \div n
                  /\ (/\ sc < U64
                      /\ sp < U64
                      /\ \A i \in I : table[i][kind].val.prev
                                         <= table[i][kind].val.cur)
                        => /\ agg.prev <= agg.cur
                           /\ n * (agg.cur - agg.prev) - (sc - sp) < n
                           /\ (sc - sp) - n * (agg.cur - agg.prev) < n

\* two engines of one class, busy going 1 -> 2 and 0 -> 0: the aggregate
\* goes 0 -> 1
C5_Witness ==
    /\ res # <<>>
    /\ Len(Deref(arg).engine) = 2
    /\ Len(Aggregated) = 1
    /\ Deref(arg).engine[1].busy.val = [cur |-> 2, prev |-> 1]
    /\ Deref(arg).engine[2].busy.val = [cur |-> 0, prev |-> 0]
    /\ Aggregated[1].busy.val = [cur |-> 1, prev |-> 0]

(***************************************************************************)
(* Properties of the Prometheus metric names (SpecProm).                   *)
(***************************************************************************)
\* a source string lower-cased, every character outside [a-z0-9] replaced
\* by '_'
Sanitised(str) ==
    [i \in 1..Len(str) |->
        IF IsDigitOrLower(str[i]) THEN str[i]
        ELSE IF \E j \in 1..Len(UpperCase) : UpperCase[j] = str[i]
        THEN LowerCase[CHOOSE j \in 1..Len(UpperCase) : UpperCase[j] = str[i]]
        ELSE "_"]

\* [a-z0-9_]+
IsKey(str) ==
    /\ str # <<>>
    /\ \A i \in 1..Len(str) : IsDigitOrLower(str[i]) \/ str[i] = "_"

\* intel_gpu_top_[a-z0-9_]+_[a-z0-9_]+
MatchesMetricPattern(str) ==
    LET p == Chars("intel_gpu_top_")
    IN  /\ Len(str) > Len(p)
        /\ SubSeq(str, 1, Len(p)) = p
        /\ \E k \in (Len(p) + 2)..(Len(str) - 1) :
              /\ str[k] = "_"
              /\ IsKey(SubSeq(str, Len(p) + 1, k - 1))
              /\ IsKey(SubSeq(str, k + 1, Len(str)))

\* the item prometheus_add_member was called with, and what it wrote
PromItem == Deref(arg).parent.items[Deref(arg).idx]
PromOut == Deref(res).out
PromPresent == PromItem.pmu # NULL /\ Deref(PromItem.pmu).present

\* C11: for every item of a present counter Prometheus mode writes the
\* lines HELP, TYPE and the metric line, once each and in that order, all
\* three under the name intel_gpu_top_<group_key>_<item_key>, the keys
\* being the group and item names lower-cased with every character outside
\* [a-z0-9] replaced by '_'; the name matches
\* intel_gpu_top_[a-z0-9_]+_[a-z0-9_]+.  Nothing is written for any other
\* item.
C11_MetricNames ==
    (pc = "prometheus_add_member" /\ res # <<>>) =>
        IF PromPresent
        THEN /\ Len(PromOut) = 3
             /\ <<PromOut[1].k, PromOut[2].k, PromOut[3].k>>
                   = <<"help", "type", "metric">>
             /\ \A i \in 1..3 :
                   /\ PromOut[i].name
                        = Chars("intel_gpu_top_")
                          \o Sanitised(NameChars(Deref(arg).parent.name))
                          \o <<"_">> \o Sanitised(Chars(PromItem.name))
                   /\ MatchesMetricPattern(PromOut[i].name)
        ELSE PromOut = <<>>

\* the busy counter of VideoEnhance/1: intel_gpu_top_videoenhance_1_busy
C11_Witness ==
    /\ pc = "prometheus_add_member"
    /\ res # <<>>
    /\ Deref(arg).parent.name = <<"VideoEnhance", 1>>
    /\ PromItem.name = "busy"
    /\ Len(PromOut) = 3
    /\ PromOut[3].name
         = Chars("intel_gpu_top_")
           \o <<"v", "i", "d", "e", "o", "e", "n", "h", "a", "n", "c", "e",
                "_", "1", "_", "b", "u", "s", "y">>

(***************************************************************************)
(* Properties of the JSON stream (Spec).                                   *)
(***************************************************************************)
\* what stands in an object or in the stream: a scalar member, the unit
\* member, an object
IsJsonElement(tok) == tok.k \in {"open", "member", "unit"}
\* how many objects are open where token i is written
JsonDepth(toks, i) ==
    Cardinality({j \in 1..(i - 1) : toks[j].k = "open"})
    - Cardinality({j \in 1..(i - 1) : toks[j].k = "close"})
\* the "{" of the object token i is written into
JsonParent(toks, i) ==
    CHOOSE p \in 1..(i - 1) :
        /\ toks[p].k = "open"
        /\ JsonDepth(toks, p) = JsonDepth(toks, i) - 1
        /\ \A q \in (p + 1)..(i - 1) :
              ~(toks[q].k = "open"
                /\ JsonDepth(toks, q) = JsonDepth(toks, i) - 1)
\* token i is the first element of its object
FirstInObject(toks, i) ==
    \A j \in (JsonParent(toks, i) + 1)..(i - 1) :
        ~(IsJsonElement(toks[j]) /\ JsonDepth(toks, j) = JsonDepth(toks, i))

\* C12: in JSON mode every member of an object, scalar or object, is
\* preceded by one comma unless it is the first of its object, which has
\* none; a top-level sample object is preceded by one comma unless it is
\* the first of the stream.
C12_JsonCommas ==
    output_mode = "JSON" =>
        \A i \in 1..Len(out) :
            IsJsonElement(out[i]) =>
                IF JsonDepth(out, i) = 0
                THEN /\ out[i].g = NoName
                     /\ i = 1
                     /\ out[i].c <=> CountFrom(log, 1, "render") > 1
                ELSE out[i].c <=> ~FirstInObject(out, i)

\* the second sample of a stream: a comma before it, none before its first
\* group, one before its second group and before the second engine
C12_Witness ==
    /\ output_mode = "JSON"
    /\ pc = "check2"
    /\ ticks = 2
    /\ out[1].k = "open" /\ out[1].c
    /\ out[2].k = "open" /\ ~out[2].c
    /\ \E i \in 1..Len(out) :
          out[i].k = "open" /\ out[i].g = <<"Render/3D", 1>> /\ out[i].c
    /\ \E i \in 1..Len(out) :
          out[i].k = "open" /\ out[i].g = <<"Render/3D", 0>> /\ ~out[i].c
    /\ json_indent_level = 0

(***************************************************************************)
(* Properties of process_stdin (SpecStdin).                                *)
(***************************************************************************)
\* the characters waiting when process_stdin was called, and how many of
\* them are '1'
Pending == Deref(arg).keys
OnesPending == Cardinality({i \in 1..Len(Pending) : Pending[i] = "1"})
QuitPending == \E i \in 1..Len(Pending) : Pending[i] = "q"
ViewFlipped == Deref(res).class_view # Deref(arg).S.class_view

\* C13 as stated: after any call class_view has changed exactly when an odd
\* number of '1' were waiting, and the shutdown flag is set exactly when it
\* was set before, a 'q' was waiting or poll failed.
C13_AllPendingConsumed ==
    (pc = "process_stdin" /\ res # <<>>) =>
        /\ ViewFlipped <=> OnesPending % 2 = 1
        /\ Deref(res).stop_top
              <=> (Deref(arg).S.stop_top \/ QuitPending
                   \/ Deref(arg).ret_poll < 0)

\* C13: a call of process_stdin whose poll reports input reads every
\* waiting character, 'q' setting the shutdown flag, each '1' flipping
\* class_view, any other character changing neither; a call whose poll
\* times out changes nothing; a call whose poll fails sets the shutdown
\* flag and reads nothing, so class_view stays whatever is waiting.
C13_KeysReadWhenPollReports ==
    (pc = "process_stdin" /\ res # <<>>) =>
        /\ Deref(arg).ret_poll > 0 =>
              /\ ViewFlipped <=> OnesPending % 2 = 1
              /\ Deref(res).stop_top <=> (Deref(arg).S.stop_top \/ QuitPending)
        /\ Deref(arg).ret_poll = 0 => Deref(res) = Deref(arg).S
        /\ Deref(arg).ret_poll < 0 =>
              /\ ~ViewFlipped
              /\ Deref(res).stop_top

\* 'q' then '1' waiting: both are read, the flag is set and the view flipped
C13_Witness ==
    /\ pc = "process_stdin"
    /\ res # <<>>
    /\ Deref(arg).ret_poll > 0
    /\ Pending = <<"q", "1">>
    /\ ~Deref(arg).S.stop_top
    /\ Deref(res).stop_top
    /\ ViewFlipped

(***************************************************************************)
(* Properties of the first rendered sample (Spec).                         *)
(***************************************************************************)
\* the kernel's clock and counters at the read of line 1716
PrimingKernel == Advance([time |-> 0, work |-> 0], 1)

\* the group and item under which a counter is rendered outside class view
ItemOf(eng, c) ==
    CASE c[1] = "freq_req" -> <<Name("frequency"), "requested">>
      [] c[1] = "freq_act" -> <<Name("frequency"), "actual">>
      [] c[1] = "irq" -> <<Name("interrupts"), "count">>
      [] c[1] = "rc6" -> <<Name("rc6"), "value">>
      [] c[1] = "r_gpu" -> <<Name("power"), "GPU">>
      [] c[1] = "r_pkg" -> <<Name("power"), "Package">>
      [] c[1] = "imc_reads" -> <<Name("imc-bandwidth"), "reads">>
      [] c[1] = "imc_writes" -> <<Name("imc-bandwidth"), "writes">>
      [] OTHER -> <<EngineName(eng.engine[c[2]]), c[1]>>

\* residencies are shown in percent of the interval, the rest per second
IsResidency(c) == c[1] \in {"rc6", "busy", "sema", "wait"}
RateOf(c, pair, t) ==
    pmu_calc(pair, IF IsResidency(c) THEN NSEC ELSE 1, t,
             IF IsResidency(c) THEN Percent ELSE One)

\* tokens that carry the value of a counter
ValueTokens == {"member", "data", "metric", "field"}

\* the one render so far is the last thing main() did
FirstRenderDone ==
    /\ log # <<>>
    /\ log[Len(log)] = "render"
    /\ CountFrom(log, 1, "render") = 1
    /\ pc = "check2"

\* C14: the sample of initialisation is never rendered, every render
\* following a sample of the loop; the first output is computed from
\* previous = values and timestamp of the priming read and current = those
\* of the second read.
C14_FirstRowFromPrimingRead ==
    /\ \A i \in 1..Len(log) :
          log[i] = "render" =>
             \E j \in 2..(i - 1) :
                /\ log[j] = "sample"
                /\ log[1] = "sample"
                /\ \A k \in (j + 1)..(i - 1) : log[k] = "sigint"
    /\ FirstRenderDone =>
          LET eng == Deref(engines)
              t == Frac((kernel.time + U64 - PrimingKernel.time) % U64, NSEC)
          IN  /\ eng.ts = [prev |-> PrimingKernel.time, cur |-> kernel.time]
              /\ loop.t = t
              /\ \A c \in PresentCounters(eng) :
                    /\ GetCtr(eng, c).val
                          = [prev |-> KernelValue(PrimingKernel, c),
                             cur |-> KernelValue(kernel, c)]
                    /\ \A i \in 1..Len(out) :
                          (out[i].k \in ValueTokens
                           /\ <<out[i].g, out[i].i>> = ItemOf(eng, c))
                             => Frac(out[i].n, out[i].d)
                                   = RateOf(c, [prev |-> KernelValue(PrimingKernel, c),
                                                cur |-> KernelValue(kernel, c)],
                                            t)

\* the first plain-text row: busy of the first engine from the priming read
\* and the read after it
C14_Witness ==
    /\ output_mode = "STDOUT"
    /\ FirstRenderDone
    /\ Deref(engines).ts.prev = PrimingKernel.time
    /\ Deref(engines).engine[1].busy.val.prev = PrimingKernel.work
    /\ Deref(engines).engine[1].busy.val.cur = kernel.work
    /\ \E i \in 1..Len(out) :
          /\ out[i].k = "data"
          /\ out[i].g = <<"Render/3D", 0>>
          /\ out[i].i = "busy"
          /\ out[i].n = 100 * out[i].d
          /\ out[i].d > 0

(***************************************************************************)
(* Properties of the interactive screen (Spec).                            *)
(***************************************************************************)
RECURSIVE Elapsed(_, _)
\* the kernel's clock after the first n steps of the history, not reduced
\* modulo 2^W: a sample takes one unit, a sleep or poll the period
Elapsed(l, n) ==
    IF n = 0 THEN 0
    ELSE Elapsed(l, n - 1)
         + (CASE l[n] = "sample" -> 1
              [] l[n] \in {"sleep", "poll"} -> PeriodTicks(period_us)
              [] OTHER -> 0)

\* the places of the pmu_sample calls in the history
SampleSteps == {k \in 1..Len(log) : log[k] = "sample"}
LastOf(S) == CHOOSE k \in S : \A j \in S : j <= k

Calls(h) ==
    LET sel == SelectSeq(driven, LAMBDA x : x[3] = h)
    IN  [k \in 1..Len(sel) |-> <<sel[k][1], sel[k][2]>>]

\* one call per item of a group, in table order
GroupCalls(name, items) == [k \in 1..Len(items) |-> <<name, items[k]>>]
PeriodCalls == GroupCalls(Name("period"), <<"duration", "unit">>)
FreqCalls == GroupCalls(Name("frequency"), <<"requested", "actual", "unit">>)
IrqCalls == GroupCalls(Name("interrupts"), <<"count", "unit">>)
Rc6Calls == GroupCalls(Name("rc6"), <<"value", "unit">>)
PowerCalls == GroupCalls(Name("power"), <<"GPU", "Package", "unit">>)
ImcCalls == GroupCalls(Name("imc-bandwidth"), <<"reads", "writes", "unit">>)

AnyPresent(counters) == \E c \in counters : c.present
\* calls when cond holds
If(cond, calls) == IF cond THEN calls ELSE <<>>

RECURSIVE EngineCalls(_, _)
\* one group per engine of the table that has a counter, from entry i on
EngineCalls(table, i) ==
    IF i > Len(table) THEN <<>>
    ELSE If(table[i].num_counters # 0,
            GroupCalls(EngineName(table[i]), <<"busy", "sema", "wait", "unit">>))
         \o EngineCalls(table, i + 1)

\* the table print_engines shows
Shown == IF class_view THEN Deref(classes).engine ELSE Deref(engines).engine

\* the four header groups and the IMC group; all(g) says whether a group
\* none of whose counters is present is driven all the same
SummaryCalls(eng, all) ==
    If(all \/ AnyPresent({eng.freq_req, eng.freq_act}), FreqCalls)
    \o If(all \/ AnyPresent({eng.irq}), IrqCalls)
    \o If(all \/ AnyPresent({eng.rc6}), Rc6Calls)
    \o If(all \/ AnyPresent({eng.r_gpu, eng.r_pkg}), PowerCalls)
    \o If(eng.num_imc # 0, ImcCalls)

CounterGroups == {GroupOf(Ctr(k, 0)) : k \in {"irq", "r_gpu", "imc_reads"}}
\* the present counters of group g
PresentIn(eng, g) ==
    {c \in AllCounters(eng.num_engines) :
        GroupOf(c) = g /\ GetCtr(eng, c).present}
\* the descriptor the open of counter c returned
FdOf(c) == (CHOOSE f \in fds : f.ctr = c).fd
\* the idx of every counter and the leader of every group
Numbering(eng) ==
    [idx |-> [c \in AllCounters(eng.num_engines) |-> GetCtr(eng, c).idx],
     leader |-> [g \in CounterGroups |-> eng[g.fd]]]

\* the counters of each group are numbered 0..N-1 as their opens succeeded
\* and the group's leader is the descriptor of number 0
GroupsNumbered ==
    InitDone =>
        \A g \in CounterGroups :
            LET eng == Deref(engines)
                P == PresentIn(eng, g)
            IN  /\ Cardinality(P) = eng[g.num]
                /\ {GetCtr(eng, c).idx : c \in P} = 0..(eng[g.num] - 1)
                /\ \A c \in P : \E f \in fds : f.ctr = c
                /\ \A c, d \in P :
                      GetCtr(eng, c).idx < GetCtr(eng, d).idx
                         <=> FdOf(c) < FdOf(d)
                /\ \A c \in P :
                      GetCtr(eng, c).idx = 0 => eng[g.fd] = FdOf(c)

\* C17: after pmu_init, whichever opens were refused, the present counters
\* of each group (engine, RAPL, IMC) have pairwise distinct idx values that
\* are exactly 0..N-1 in the order their opens succeeded, N being the
\* group's count; the group's leader is the descriptor returned for idx 0;
\* and no later step changes an idx or a leader.
C17_GroupIndices ==
    /\ []GroupsNumbered
    /\ [][InitDone => Numbering(Deref(engines')) = Numbering(Deref(engines))]_vars

\* the opens of freq_req, of the engine's busy counter and of the GPU power
\* counter refused: the engine group numbers its five counters past the
\* gaps, the RAPL group is led by the package counter, and the priming
\* sample has run
C17_Witness ==
    /\ InitDone
    /\ pc = "loop_head"
    /\ env.refused = {Ctr("freq_req", 0), Ctr("busy", 1), Ctr("r_gpu", 0)}
    /\ Deref(engines).num_counters = 5
    /\ Deref(engines).num_engines = 1
    /\ Deref(engines).engine[1].sema.idx = 4
    /\ Deref(engines).r_pkg.idx = 0
    /\ Deref(engines).rapl_fd = FdOf(Ctr("r_pkg", 0))
    /\ Deref(engines).imc_writes.idx = 1
    /\ Deref(engines).imc_fd = FdOf(Ctr("imc_reads", 0))

(***************************************************************************)
(* Properties of one pmu_sample call (Spec).                               *)
(***************************************************************************)
\* the step is a pmu_sample call that returned
SampleStep == log' = Append(log, "sample") /\ pc' # "abort"
\* what a grouped read of c's group returns once the step is over
GroupRead(eng, c) == KernelRead(kernel', fds, eng[GroupOf(c).fd])

\* C18: a pmu_sample call sets, for every present counter c, c.prev to the
\* old c.cur and c.cur to slot c.idx of the read of c's group (which is
\* the kernel's value of c's own event); it sets
\* ts.prev to the old ts.cur and ts.cur to the timestamp of the
\* engine-group read; prev and cur of an absent counter stay as they were.
C18_SampleEffect ==
    [][SampleStep =>
        LET old == Deref(engines)
            new == Deref(engines')
        IN  /\ new.ts.prev = old.ts.cur
            /\ new.ts.cur = KernelRead(kernel', fds, old.fd).ts
            /\ \A c \in AllCounters(old.num_engines) :
                  IF GetCtr(old, c).present
                  THEN /\ GetCtr(new, c).val.prev = GetCtr(old, c).val.cur
                       /\ GetCtr(new, c).val.cur
                             = GroupRead(old, c).val[GetCtr(old, c).idx + 1]
                       /\ GetCtr(new, c).val.cur = KernelValue(kernel', c)
                  ELSE GetCtr(new, c).val = GetCtr(old, c).val]_vars

\* after a sample in the loop: the interrupt counter has moved its former
\* reading to prev and taken a new one, the timestamps have shifted, and
\* the refused rc6 counter still holds the zeroes it was allocated with
C18_Witness ==
    /\ pc = "check1"
    /\ CountFrom(log, 1, "sample") = 3
    /\ Deref(engines).irq.present
    /\ Deref(engines).irq.val.prev # 0
    /\ Deref(engines).irq.val.cur # Deref(engines).irq.val.prev
    /\ Deref(engines).ts.prev # 0
    /\ Deref(engines).ts.cur = kernel.time
    /\ ~Deref(engines).rc6.present
    /\ Deref(engines).rc6.val = [cur |-> 0, prev |-> 0]
    /\ Deref(engines).engine[2].sema.val.cur = kernel.work \div 2

(***************************************************************************)
(* Properties of the grouped reads of one tick (Spec).                     *)
(***************************************************************************)
\* the leader of group g if the group has a present counter
ReadOf(eng, g) == If(PresentIn(eng, g) # {}, <<eng[g.fd]>>)
\* the reads a tick is to make: engine group, RAPL group, IMC group
ExpectedReads(eng) ==
    ReadOf(eng, GroupOf(Ctr("irq", 0)))
    \o ReadOf(eng, GroupOf(Ctr("r_gpu", 0)))
    \o ReadOf(eng, GroupOf(Ctr("imc_reads", 0)))

\* C19: each pmu_sample issues exactly one grouped read for each group
\* with at least one present counter and none for a group without, in the
\* order engine, RAPL, IMC; all counters of a group take their new values
\* from that one read; and no other step reads a group.
C19_OneReadPerGroup ==
    /\ [][SampleStep =>
            /\ reads' = ExpectedReads(Deref(engines))
            /\ \A g \in CounterGroups :
                  \A fd \in {Deref(engines)[g.fd]} :
                  \A rd \in {KernelRead(kernel', fds, fd)} :
                      /\ Cardinality({k \in 1..Len(reads') : reads'[k] = fd})
                            = IF PresentIn(Deref(engines), g) = {} THEN 0 ELSE 1
                      /\ \A c \in PresentIn(Deref(engines), g) :
                            GetCtr(Deref(engines'), c).val.cur
                               = rd.val[GetCtr(Deref(engines), c).idx + 1]]_vars
    /\ [][log' # Append(log, "sample") => reads' = reads]_vars

\* a tick on a machine whose RAPL opens were both refused: the engine
\* group and the IMC group are read, in that order, and nothing else
C19_Witness ==
    /\ pc = "check1"
    /\ CountFrom(log, 1, "sample") = 2
    /\ Deref(engines).num_rapl = 0
    /\ Deref(engines).num_imc = 2
    /\ reads = <<Deref(engines).fd, Deref(engines).imc_fd>>
    /\ Deref(engines).imc_reads.val.cur = kernel.time
    /\ Deref(engines).imc_writes.val.cur = kernel.work

(***************************************************************************)
(* Properties of the shutdown flag and the tick under way (SpecLive).      *)
(***************************************************************************)
\* pmu_sample calls made in the loop, and samples rendered
LoopSamples == Max(CountFrom(log, 1, "sample") - 1, 0)
Renders == CountFrom(log, 1, "render")
\* the log without the arrivals of the signal
ProgramLog == SelectSeq(log, LAMBDA x : x # "sigint")
\* every call a non-interactive renderer is driven with for one sample
FullCalls ==
    If(output_mode = "JSON", PeriodCalls)
    \o SummaryCalls(Deref(engines), FALSE)
    \o EngineCalls(Deref(engines).engine, 1)

\* C20 as stated: a sample issued in the loop is rendered before the loop
\* is left, whether or not the flag is set.
C20_EverySampleRendered == pc = "done" => Renders = LoopSamples

\* C20: the flag never cuts a render short: it is read at the loop head,
\* after pmu_sample and after the render loop, so a render that has begun
\* runs to its end and prints the whole sample even if the flag is set
\* meanwhile; a sample whose check after pmu_sample finds the flag set is
\* dropped unrendered, and that is the only sample ever dropped.
C20_RenderNotCutShort ==
    /\ [][pc = "render" => pc' \in {"render", "check2"}]_vars
    /\ [][(pc = "render" /\ pc' = "check2") => log' = Append(log, "render")]_vars
    /\ [](pc = "check2" => (Calls(0) = FullCalls /\ Renders = LoopSamples))
    /\ [](Renders <= LoopSamples /\ LoopSamples <= Renders + 1)
    /\ []((pc = "done" /\ Renders # LoopSamples) =>
             (stop_top /\ ProgramLog[Len(ProgramLog)] = "sample"))
    /\ [][(pc = "check1" /\ stop_top) => (pc' = "done" /\ log' = log)]_vars

\* the signal arrived while the sample was being printed: the render went
\* on to its end and the loop is about to be left
C20_Witness ==
    /\ pc = "check2"
    /\ stop_top
    /\ Len(log) >= 3
    /\ SubSeq(log, Len(log) - 2, Len(log)) = <<"sample", "sigint", "render">>
    /\ Calls(0) = FullCalls
    /\ Len(out) > 0

(***************************************************************************)
(* Properties of the descriptors at exit (Spec).                           *)
(***************************************************************************)
\* C21: when main returns, whatever the exit path, no perf descriptor of
\* the engine, RAPL or IMC group and no events directory handle is open.
C21_DescriptorsClosedAtExit == pc = "done" => fds = {}

(***************************************************************************)
(* Properties of a short grouped read (SpecShort).                         *)
(***************************************************************************)
\* the place of a group in the order pmu_sample reads them
GroupRank(fdname) ==
    CASE fdname = "fd" -> 1 [] fdname = "rapl_fd" -> 2 [] OTHER -> 3
\* the step is a pmu_sample call, returned or not
SampleCall == log' = Append(log, "sample")
\* the call about to be made reads a group, and that read comes back short
ShortReadDue ==
    /\ FaultNow # NULL
    /\ \E g \in CounterGroups :
          g.fd = Deref(FaultNow).group /\ PresentIn(Deref(engines), g) # {}

\* C22: a grouped read that returns fewer than 8*(2+N) bytes for a group of
\* N counters aborts the process at that read: the counters of that group
\* (and of the groups read after it) keep their prev and cur, nothing is
\* printed, and no step follows; a call all of whose reads are complete
\* does not abort.
C22_ShortReadAborts ==
    /\ [][(SampleCall /\ ShortReadDue) =>
            /\ pc' = "abort"
            /\ out' = out /\ rows' = rows
            /\ reads'[Len(reads')] = Deref(engines)[Deref(FaultNow).group]
            /\ \A c \in AllCounters(Deref(engines).num_engines) :
                  IF GroupRank(GroupOf(c).fd) >= GroupRank(Deref(FaultNow).group)
                  THEN GetCtr(Deref(engines'), c).val
                          = GetCtr(Deref(engines), c).val
                  ELSE GetCtr(Deref(engines), c).present =>
                          GetCtr(Deref(engines'), c).val
                             = [prev |-> GetCtr(Deref(engines), c).val.cur,
                                cur |-> KernelValue(kernel', c)]]_vars
    /\ [][(SampleCall /\ ~ShortReadDue) => pc' # "abort"]_vars
    /\ [][pc # "abort"]_vars

\* the third read of the RAPL group came back short: the engine counters
\* have their new values, the RAPL counters those of the sample before,
\* and the one sample rendered so far stays the only one
C22_Witness ==
    /\ pc = "abort"
    /\ env.short = Ptr([sample |-> 3, group |-> "rapl_fd", words |-> 2])
    /\ CountFrom(log, 1, "sample") = 3
    /\ CountFrom(log, 1, "render") = 1
    /\ Deref(engines).irq.val.cur = kernel.time
    /\ Deref(engines).r_gpu.present
    /\ Deref(engines).r_gpu.val.cur # kernel.work
    /\ Deref(engines).imc_reads.val.cur # kernel.time
    /\ Len(out) > 0

(***************************************************************************)
(* Properties of the class view (Spec).                                    *)
(***************************************************************************)
\* the step is a pass of the render loop
RenderStep == log' = Append(log, "render")
\* the usage bars on the screen
Bars == SelectSeq(out, LAMBDA tok : tok.k = "bar")
\* the engines of a table that get a row: those with a counter
WithCounters(table) == SelectSeq(table, LAMBDA e : e.num_counters # 0)

\* C23: a render, in class view or not, leaves the instance-level engine
\* table as it was: number and order of the engines and every engine's
\* busy, wait and sema counters; and whenever the instance view is
\* rendered, before or after the class view was used, the rows show the
\* engines of that table with the values of their own counters.
C23_InstanceTableUntouched ==
    /\ [][RenderStep =>
            /\ Deref(engines').num_engines = Deref(engines).num_engines
            /\ Deref(engines').engine = Deref(engines).engine]_vars
    /\ []((pc = "check2" /\ output_mode = "INTERACTIVE" /\ ~class_view) =>
            \E n \in 0..Deref(engines).num_engines :
               /\ Len(Bars) = n
               /\ IsPrefix(Bars,
                     [i \in 1..Len(WithCounters(Deref(engines).engine)) |->
                        LET e == WithCounters(Deref(engines).engine)[i]
                            v == pmu_calc(e.busy.val, NSEC, loop.t, Percent)
                        IN  Tok("bar", EngineName(e), "busy", v.n, v.d, FALSE)]))

\* the class view was used and left again: the class table exists, holds
\* the values of an earlier tick, and the screen shows the two instances
C23_Witness ==
    /\ pc = "check2"
    /\ output_mode = "INTERACTIVE"
    /\ ~class_view
    /\ classes # NULL
    /\ Deref(classes).engine[1].busy.val # Deref(engines).engine[1].busy.val
    /\ Len(Bars) = 2
    /\ Bars[2].g = <<"Render/3D", 1>>

(***************************************************************************)
(* Properties of the lifetime of the class table (Spec).                   *)
(***************************************************************************)
\* what identifies the entries of a class table, their values left aside
Layout(cl) ==
    [class |-> cl.class,
     engine |-> [i \in 1..Len(cl.engine) |->
                    <<cl.engine[i].class, cl.engine[i].instance,
                      cl.engine[i].num_counters>>]]

\* C24: the class table is built by the first render made while the class
\* view is on and by no other step; it is built at most once; later
\* renders keep it and only refresh its values; and it is never built in a
\* non-interactive mode, where the class view is never on.
C24_ClassTableBuiltOnce ==
    /\ [](built <= 1 /\ (built = 1 <=> classes # NULL))
    /\ [][(RenderStep /\ pc' = "check2" /\ class_view) => built' = 1]_vars
    /\ [][built' # built =>
            (RenderStep /\ class_view /\ classes = NULL /\ built' = 1)]_vars
    /\ [][classes # NULL =>
            (classes' # NULL /\ Layout(Deref(classes')) = Layout(Deref(classes)))]_vars
    /\ []((pc # "start" /\ output_mode # "INTERACTIVE") =>
            (~class_view /\ built = 0))

\* the second screen of an interactive run, drawn in class view: the table
\* was built once and holds the values of this tick
C24_Witness ==
    /\ pc = "check2"
    /\ output_mode = "INTERACTIVE"
    /\ class_view
    /\ CountFrom(log, 1, "render") = 2
    /\ built = 1
    /\ Len(Deref(classes).engine) = 1
    /\ Deref(classes).engine[1].instance = -1
    /\ Deref(classes).engine[1].busy.val = Deref(engines).engine[1].busy.val

(***************************************************************************)
(* Properties of the order of the engine table (SpecSort).                 *)
(***************************************************************************)
\* strictly ascending by (class, instance)
Ascending(table) ==
    \A i, j \in 1..Len(table) :
        i < j => \/ table[i].class < table[j].class
                 \/ /\ table[i].class = table[j].class
                    /\ table[i].instance < table[j].instance
\* every order the elements of q can come in
Orders(q) ==
    {[i \in 1..Len(q) |-> q[f[i]]] :
        f \in {g \in [1..Len(q) -> 1..Len(q)] :
                 \A i, j \in 1..Len(q) : i # j => g[i] # g[j]}}
Elements(q) == {q[i] : i \in 1..Len(q)}

\* C25: the engine table discovery returns is sorted ascending by (class,
\* instance) and, the pairs being pairwise distinct, is the same for every
\* order in which the directory entries are enumerated; it holds one
\* engine for each busy entry.
C25_SortedWhateverTheOrder ==
    res # <<>> =>
        /\ pc = "discover_engines" =>
              /\ Deref(res) # NULL
              /\ Ascending(Deref(Deref(res)).engine)
              /\ {e.config : e \in Elements(Deref(Deref(res)).engine)}
                    = {d.config : d \in {x \in Elements(Deref(arg).entries) :
                                            x.kind = "busy"}}
              /\ Deref(Deref(res)).num_engines = Len(Deref(Deref(res)).engine)
              /\ \A q \in Orders(Deref(arg).entries) :
                    discover_engines([exists |-> TRUE, entries |-> q], FALSE, 3)
                       = Deref(res)
        /\ pc = "qsort" =>
              /\ Ascending(Deref(res))
              /\ Elements(Deref(res)) = Elements(Deref(arg))
              /\ \A q \in Orders(Deref(arg)) : SortEngines(q) = Deref(res)

\* a directory enumerated as instance 10, another file, instance 0,
\* instance 2: the table holds instances 0, 2, 10
C25_Witness ==
    /\ pc = "discover_engines"
    /\ res # <<>>
    /\ Len(Deref(arg).entries) = 3
    /\ ConfigInstance(Deref(arg).entries[1].config) = 10
    /\ Deref(arg).entries[2].kind = "busy"
    /\ Deref(arg).entries[3].kind = "busy"
    /\ ConfigInstance(Deref(arg).entries[2].config) = 0
    /\ [i \in 1..3 |-> Deref(Deref(res)).engine[i].instance] = <<0, 2, 10>>

C27_BarFillsItsCells ==
    res # <<>> =>
        LET max_cells == BarMaxLen(Deref(arg).con_w)
            percent == Deref(arg).percent
            bar_len == TruncDiv(percent.n * (8 * (max_cells - 2)),
                                percent.d * 100)
            cells == Deref(res).cells
            partial == IF bar_len % 8 = 0 THEN 0 ELSE 1
        IN  /\ ~Deref(res).oob
            /\ ~Deref(res).crashed
            /\ Len(cells) = max_cells
            /\ cells[1] = <<"|", 0>>
            /\ cells[Len(cells)] = <<"|", 0>>
            /\ \A k \in 2..(Len(cells) - 1) :
                  cells[k] = IF k - 1 <= bar_len \div 8 THEN <<"glyph", 8>>
                             ELSE IF k - 1 = bar_len \div 8 + partial
                             THEN <<"glyph", bar_len % 8>>
                             ELSE <<" ", 0>>

(***************************************************************************)
(* Properties of the nesting of the structs (Spec).                        *)
(***************************************************************************)
\* a render ended in one of the asserts of the struct functions: those are
\* the only asserts of a render in the JSON and plain-text modes
NestingAssertFailed ==
    /\ pc = "abort"
    /\ output_mode \in {"JSON", "STDOUT"}
    /\ log # <<>>
    /\ log[Len(log)] = "render"

\* C28: in every output mode, whatever the number of engines and of
\* engines with a counter, none included, the open_struct and close_struct
\* calls of a sample are balanced: between samples the JSON indent level
\* and the plain-text nesting level are 0, the indent level stays within
\* the indent strings, and no assert on a nesting level fails.
C28_StructsBalanced ==
    /\ ~NestingAssertFailed
    /\ json_indent_level <= 5
    /\ pc # "abort" => (json_indent_level = 0 /\ stdout_level = 0)

(***************************************************************************)
(* Properties of the columns of plain-text mode (Spec).  The widths are    *)
(* those of the fprintf calls of stdout_add_member: "%*s " prints the      *)
(* larger of the field width and the length of the string, and a blank.    *)
(***************************************************************************)
\* the groups a plain-text sample prints, in their order
ColumnGroups ==
    HeaderGroups(Deref(engines), loop.t, "STDOUT")
    \o <<imc_group(Deref(engines), loop.t)>>
    \o [i \in 1..Len(Deref(engines).engine) |->
          engine_group(Deref(engines).engine[i], loop.t)]
GroupNamed(g) ==
    ColumnGroups[CHOOSE i \in 1..Len(ColumnGroups) : ColumnGroups[i].name = g]
ItemNamed(grp, name) ==
    grp.items[CHOOSE i \in 1..Len(grp.items) : grp.items[i].name = name]
\* strlen of a display name: the string, and "/<instance>" for an engine
NameLen(name) == Len(name[1]) + (IF name[2] >= 0 THEN 2 ELSE 0)
\* the characters one call of stdout_add_member printed
CellWidth(tok) ==
    CASE tok.k = "h1" ->
           Max(tok.n, NameLen(GroupNamed(tok.g).display_name)) + 1
      [] tok.k = "h2" -> tok.n + 1
      [] tok.k = "data" -> fmt_tot(ItemNamed(GroupNamed(tok.g), tok.i)) + 1
      [] OTHER -> 0
\* the ends of the lines printed, and the tokens of the line ending at j
LineEnds == {j \in 1..Len(out) : out[j].k = "nl"}
LineAt(j) ==
    {i \in 1..(j - 1) : \A m \in i..(j - 1) : out[m].k # "nl"}
RECURSIVE SumWidths(_)
SumWidths(I) ==
    IF I = {} THEN 0
    ELSE LET i == CHOOSE x \in I : TRUE
         IN  CellWidth(out[i]) + SumWidths(I \ {i})
\* the width group g takes in the line ending at j
GroupWidth(j, g) == SumWidths({i \in LineAt(j) : out[i].g = g})
PrintedGroups ==
    {out[i].g : i \in {m \in 1..Len(out) : out[m].k \in {"h1", "h2", "data"}}}

\* C29: in plain-text mode, whatever counters are present, a group with a
\* present item takes the same width in the line of the group titles, in
\* the line of the item labels and in every data line, also when its first
\* item is absent and a later one is present.
C29_ColumnsAligned ==
    (output_mode = "STDOUT" /\ pc # "abort")
        => \A g \in PrintedGroups : \A j1, j2 \in LineEnds :
               GroupWidth(j1, g) = GroupWidth(j2, g)

\* the same with the groups the code can align: the first item present and
\* the title no longer than the items
C29_Side ==
    (output_mode = "STDOUT" /\ pc # "abort")
        => \A g \in PrintedGroups :
               (/\ Deref(GroupNamed(g).items[1].pmu).present
                /\ NameLen(GroupNamed(g).display_name) < grp_tot(GroupNamed(g).items, 1))
               => \A j1, j2 \in LineEnds : GroupWidth(j1, g) = GroupWidth(j2, g)

(***************************************************************************)
(* The interactive screen on its own: terminals of every height from none  *)
(* to more rows than the full screen has, the serial console that reports  *)
(* 0x0, none to two engines, with and without the IMC lines.               *)
(***************************************************************************)
ScreenHeights == 0..11
ScreenTerms ==
    {Term(80, h) : h \in ScreenHeights} \cup {Term(0, 0), Term(0, 4)}

InitScreen ==
    /\ argv = <<>>
    /\ \E z \in ScreenTerms, d \in {DirEmpty, Dir1, Dir2},
          r \in {{}, {Ctr("imc_reads", 0), Ctr("imc_writes", 0)}} :
          env = [EnvOk EXCEPT !.term = z, !.sysfs = d, !.refused = r]
    /\ InitProgram

NextScreen ==
    \/ MainStart \/ SelectCard \/ Discover \/ PmuInit \/ Prime
    \/ LoopHead \/ Sample \/ Check1 \/ Render \/ Check2
    \/ ProcessStdin

SpecScreen == InitScreen /\ [][NextScreen]_vars

(***************************************************************************)
(* Properties of the interactive screen (SpecScreen).                      *)
(***************************************************************************)
\* the text rows the last tick printed
ScreenRows == SelectSeq(out, LAMBDA tok : tok.k = "line")

\* C30: in interactive mode the rows printed for one tick (summary line,
\* blank lines, IMC lines, engines header, engine rows, footer) are never
\* more than the height con_h obtained for the tick, for any number of
\* engines and any height; a terminal that reports 0x0 counts as 80x24.
C30_RowsWithinHeight ==
    (output_mode = "INTERACTIVE" /\ Renders > 0)
        => /\ Len(ScreenRows) <= loop.con_h
           /\ loop.con_h = IF env.term.col = 0 /\ env.term.row = 0 THEN 24
                           ELSE env.term.row
           /\ loop.con_w = IF env.term.col = 0 /\ env.term.row = 0 THEN 80
                           ELSE env.term.col

\* a tick on a terminal of three rows with two engines and the IMC lines:
\* the screen is cut after the third row
C30_Witness ==
    /\ output_mode = "INTERACTIVE"
    /\ Renders > 0
    /\ loop.con_h = 3
    /\ Len(ScreenRows) = 3
    /\ Len(Deref(engines).engine) = 2
    /\ Deref(engines).num_imc > 0

====
